---- MODULE Spec2Model ----
(***************************************************************************)
(* Cookie Run: Kingdom team optimizer: Team construction, equality and     *)
(* scoring (team_optimizer.py, synergy_calculator.py) and the search       *)
(* strategies of TeamOptimizer.find_best_teams.                            *)
(*                                                                         *)
(* Python floats are IEEE-754 binary64.  Scores are sums, products and     *)
(* quotients of such floats, so they are modelled bit for bit: a float is  *)
(* a sign, a 53-bit mantissa (little-endian limbs) and a binary exponent,  *)
(* and every operation rounds to nearest, ties to even, as the hardware    *)
(* does.                                                                   *)
(***************************************************************************)
EXTENDS Integers, Sequences, FiniteSets, TLC

(***************************************************************************)
(* Natural numbers of any size, as little-endian sequences of limbs        *)
(* (no leading zero limb; the empty sequence is 0).                        *)
(***************************************************************************)
LimbBits == 7 + 7
Base == 2 ^ LimbBits
MantBits == 50 + 3

RECURSIVE Pow2(_)
Pow2(k) == IF k = 0 THEN 1 ELSE 2 * Pow2(k - 1)

RECURSIVE BStrip(_)
BStrip(a) ==
  IF a = <<>> THEN <<>>
  ELSE IF a[Len(a)] = 0 THEN BStrip(SubSeq(a, 1, Len(a) - 1))
  ELSE a

\* for 0 <= k < 2^31
RECURSIVE BFromInt(_)
BFromInt(k) == IF k = 0 THEN <<>> ELSE <<k % Base>> \o BFromInt(k \div Base)

BHead(a) == IF a = <<>> THEN 0 ELSE a[1]
BTail(a) == IF a = <<>> THEN <<>> ELSE Tail(a)

RECURSIVE BAddC(_, _, _)
BAddC(a, b, c) ==
  IF a = <<>> /\ b = <<>> THEN (IF c = 0 THEN <<>> ELSE <<c>>)
  ELSE LET x == BHead(a) + BHead(b) + c
       IN <<x % Base>> \o BAddC(BTail(a), BTail(b), x \div Base)

BAdd(a, b) == BAddC(a, b, 0)

RECURSIVE BSubC(_, _, _)
BSubC(a, b, c) ==
  IF a = <<>> THEN <<>>
  ELSE LET x == BHead(a) - BHead(b) - c
       IN IF x < 0 THEN <<x + Base>> \o BSubC(BTail(a), BTail(b), 1)
          ELSE <<x>> \o BSubC(BTail(a), BTail(b), 0)

\* a - b for a >= b
BSub(a, b) == BStrip(BSubC(a, b, 0))

\* compares limbs i, i-1, ..., 1 of two numbers of equal length
RECURSIVE BCmpFrom(_, _, _)
BCmpFrom(a, b, i) ==
  IF i = 0 THEN 0
  ELSE IF a[i] < b[i] THEN -1
  ELSE IF a[i] > b[i] THEN 1
  ELSE BCmpFrom(a, b, i - 1)

\* -1, 0, 1 as a < b, a = b, a > b
BCmp(a, b) ==
  IF Len(a) < Len(b) THEN -1
  ELSE IF Len(a) > Len(b) THEN 1
  ELSE BCmpFrom(a, b, Len(a))

RECURSIVE BMulSmallC(_, _, _)
BMulSmallC(a, k, c) ==
  IF a = <<>> THEN BFromInt(c)
  ELSE LET x == a[1] * k + c
       IN <<x % Base>> \o BMulSmallC(Tail(a), k, x \div Base)

\* a * k for a small k (0 <= k < 2^16)
BMulSmall(a, k) == IF k = 0 THEN <<>> ELSE BMulSmallC(a, k, 0)

RECURSIVE BMul(_, _)
BMul(a, b) ==
  IF b = <<>> \/ a = <<>> THEN <<>>
  ELSE LET rest == BMul(a, Tail(b))
       IN BAdd(BMulSmall(a, b[1]), IF rest = <<>> THEN <<>> ELSE <<0>> \o rest)

\* quotient and remainder of limbs i..1 of a by a small k, r the remainder so far
RECURSIVE BDivSmallFrom(_, _, _, _)
BDivSmallFrom(a, k, i, r) ==
  IF i = 0 THEN [q |-> <<>>, r |-> r]
  ELSE LET x == r * Base + a[i]
           lower == BDivSmallFrom(a, k, i - 1, x % k)
       IN [q |-> lower.q \o <<x \div k>>, r |-> lower.r]

\* quotient and remainder of a by a small k (0 < k < 2^16)
BDivSmall(a, k) ==
  LET d == BDivSmallFrom(a, k, Len(a), 0)
  IN [q |-> BStrip(d.q), r |-> d.r]

RECURSIVE Zeros(_)
Zeros(n) == IF n = 0 THEN <<>> ELSE <<0>> \o Zeros(n - 1)

BShl(a, bits) ==
  IF a = <<>> THEN <<>>
  ELSE Zeros(bits \div LimbBits) \o BMulSmall(a, Pow2(bits % LimbBits))

BShr(a, bits) ==
  LET drop == bits \div LimbBits
  IN IF drop >= Len(a) THEN <<>>
     ELSE BDivSmall(SubSeq(a, drop + 1, Len(a)), Pow2(bits % LimbBits)).q

\* bits of a limb 0 <= k < Base
RECURSIVE IntBitLen(_)
IntBitLen(k) == IF k = 0 THEN 0 ELSE 1 + IntBitLen(k \div 2)

BBitLen(a) == IF a = <<>> THEN 0 ELSE LimbBits * (Len(a) - 1) + IntBitLen(a[Len(a)])

BOdd(a) == a # <<>> /\ a[1] % 2 = 1

(***************************************************************************)
(* IEEE-754 binary64 values: (-1)^neg * m * 2^e with m = 0 or              *)
(* 2^52 <= m < 2^53.  The values of the program stay far from the          *)
(* subnormal and overflow ranges.                                          *)
(***************************************************************************)
FZero == [neg |-> FALSE, m |-> <<>>, e |-> 0]

\* q * 2^e with q < 2^54: one bit is dropped if the rounding carried into bit 54
RoundCarry(neg, q, e) ==
  IF BBitLen(q) > MantBits
    THEN [neg |-> neg, m |-> BShr(q, 1), e |-> e + 1]
    ELSE [neg |-> neg, m |-> q, e |-> e]

\* q the leading 53 bits, half the first bit dropped, inexact whether any
\* lower bit was set: round to nearest, ties to even
RoundNearestEven(neg, q, e, half, inexact) ==
  RoundCarry(neg, IF half /\ (inexact \/ BOdd(q)) THEN BAdd(q, <<1>>) ELSE q, e)

\* a has s > 0 bits too many; q2 is a without its lowest s - 1 bits
RoundDown(neg, a, e, sticky, s, q2) ==
  RoundNearestEven(neg, BShr(q2, 1), e + s, BOdd(q2), sticky \/ BShl(q2, s - 1) # a)

\* a has L bits
RoundBits(neg, a, e, sticky, L) ==
  IF L = 0 THEN FZero
  ELSE IF L <= MantBits
    THEN [neg |-> neg, m |-> BShl(a, MantBits - L), e |-> e - (MantBits - L)]
  ELSE RoundDown(neg, a, e, sticky, L - MantBits, BShr(a, L - MantBits - 1))

\* the float nearest to (-1)^neg * a * 2^e (+ a little more when sticky), ties to even
Round53(neg, a, e, sticky) == RoundBits(neg, a, e, sticky, BBitLen(a))

FInt(k) == Round53(k < 0, BFromInt(IF k < 0 THEN -k ELSE k), 0, FALSE)

FNeg(a) == IF a.m = <<>> THEN a ELSE [a EXCEPT !.neg = ~a.neg]

\* the difference of two magnitudes on the exponent e, c their comparison
FAddOpposite(na, nb, ma, mb, e, c) ==
  Round53(IF c >= 0 THEN na ELSE nb,
          IF c >= 0 THEN BSub(ma, mb) ELSE BSub(mb, ma), e, FALSE)

\* signs na, nb and magnitudes ma, mb on the common exponent e
FAddAligned(na, nb, ma, mb, e) ==
  IF na = nb
    THEN Round53(na, BAdd(ma, mb), e, FALSE)
    ELSE FAddOpposite(na, nb, ma, mb, e, BCmp(ma, mb))

\* e the smaller of the two exponents
FAddAt(a, b, e) == FAddAligned(a.neg, b.neg, BShl(a.m, a.e - e), BShl(b.m, b.e - e), e)

FAdd(a, b) ==
  IF a.m = <<>> THEN b
  ELSE IF b.m = <<>> THEN a
  ELSE FAddAt(a, b, IF a.e < b.e THEN a.e ELSE b.e)

FSub(a, b) == FAdd(a, FNeg(b))

FMul(a, b) == Round53(a.neg # b.neg, BMul(a.m, b.m), a.e + b.e, FALSE)

GuardBits == LimbBits + LimbBits

\* d the quotient and remainder of the magnitude
FDivRound(neg, e, d) == Round53(neg, d.q, e, d.r # 0)

\* a / k for an integer-valued divisor 0 < k < 2^16 (60.0, 70.0, 100.0, a length)
FDivInt(a, k) == FDivRound(a.neg, a.e - GuardBits, BDivSmall(BShl(a.m, GuardBits), k))

\* nonzero a and b of one sign, e the smaller of the two exponents
FCmpAt(a, b, e) ==
  IF a.neg
    THEN BCmp(BShl(b.m, b.e - e), BShl(a.m, a.e - e))
    ELSE BCmp(BShl(a.m, a.e - e), BShl(b.m, b.e - e))

\* -1, 0, 1 as a < b, a = b, a > b
FCmp(a, b) ==
  IF a.m = <<>> /\ b.m = <<>> THEN 0
  ELSE IF a.m = <<>> THEN (IF b.neg THEN 1 ELSE -1)
  ELSE IF b.m = <<>> THEN (IF a.neg THEN -1 ELSE 1)
  ELSE IF a.neg # b.neg THEN (IF a.neg THEN -1 ELSE 1)
  ELSE FCmpAt(a, b, IF a.e < b.e THEN a.e ELSE b.e)

FLt(a, b) == FCmp(a, b) < 0
FGt(a, b) == FCmp(a, b) > 0
\* Python's min(a, b) returns a unless b < a; max(a, b) returns a unless b > a
FMin(a, b) == IF FLt(b, a) THEN b ELSE a
\* "if cond: acc += v"
AddIf(cond, acc, v) == IF cond THEN FAdd(acc, v) ELSE acc


(***************************************************************************)
(* Float literals of the source.                                           *)
(***************************************************************************)
\* 0.1
F0_1 == [neg |-> FALSE, m |-> <<6554, 9830, 6553, 1638>>, e |-> -56]
\* 0.15
F0_15 == [neg |-> FALSE, m |-> <<13107, 3276, 13107, 1228>>, e |-> -55]
\* 0.3
F0_3 == [neg |-> FALSE, m |-> <<13107, 3276, 13107, 1228>>, e |-> -54]
\* 0.35
F0_35 == [neg |-> FALSE, m |-> <<9830, 6553, 9830, 1433>>, e |-> -54]
\* 0.4
F0_4 == [neg |-> FALSE, m |-> <<6554, 9830, 6553, 1638>>, e |-> -54]
\* 0.5
F0_5 == [neg |-> FALSE, m |-> <<0, 0, 0, 1024>>, e |-> -53]
\* 0.6
F0_6 == [neg |-> FALSE, m |-> <<13107, 3276, 13107, 1228>>, e |-> -53]
\* 0.7
F0_7 == [neg |-> FALSE, m |-> <<9830, 6553, 9830, 1433>>, e |-> -53]
\* 0.8
F0_8 == [neg |-> FALSE, m |-> <<6554, 9830, 6553, 1638>>, e |-> -53]
\* 0.9
F0_9 == [neg |-> FALSE, m |-> <<3277, 13107, 3276, 1843>>, e |-> -53]
\* 1.0
F1 == [neg |-> FALSE, m |-> <<0, 0, 0, 1024>>, e |-> -52]
\* 1.5
F1_5 == [neg |-> FALSE, m |-> <<0, 0, 0, 1536>>, e |-> -52]
\* 2.0
F2 == [neg |-> FALSE, m |-> <<0, 0, 0, 1024>>, e |-> -51]
\* 2.5
F2_5 == [neg |-> FALSE, m |-> <<0, 0, 0, 1280>>, e |-> -51]
\* 3.0
F3 == [neg |-> FALSE, m |-> <<0, 0, 0, 1536>>, e |-> -51]
\* 4.0
F4 == [neg |-> FALSE, m |-> <<0, 0, 0, 1024>>, e |-> -50]
\* 5.0
F5 == [neg |-> FALSE, m |-> <<0, 0, 0, 1280>>, e |-> -50]
\* 5.5
F5_5 == [neg |-> FALSE, m |-> <<0, 0, 0, 1408>>, e |-> -50]
\* 6.0
F6 == [neg |-> FALSE, m |-> <<0, 0, 0, 1536>>, e |-> -50]
\* 6.5
F6_5 == [neg |-> FALSE, m |-> <<0, 0, 0, 1664>>, e |-> -50]
\* 7.0
F7 == [neg |-> FALSE, m |-> <<0, 0, 0, 1792>>, e |-> -50]
\* 8.0
F8 == [neg |-> FALSE, m |-> <<0, 0, 0, 1024>>, e |-> -49]
\* 8.5
F8_5 == [neg |-> FALSE, m |-> <<0, 0, 0, 1088>>, e |-> -49]
\* 10.0
F10 == [neg |-> FALSE, m |-> <<0, 0, 0, 1280>>, e |-> -49]
\* 12.0
F12 == [neg |-> FALSE, m |-> <<0, 0, 0, 1536>>, e |-> -49]
\* 15.0
F15 == [neg |-> FALSE, m |-> <<0, 0, 0, 1920>>, e |-> -49]
\* 20.0
F20 == [neg |-> FALSE, m |-> <<0, 0, 0, 1280>>, e |-> -48]
\* 25.0
F25 == [neg |-> FALSE, m |-> <<0, 0, 0, 1600>>, e |-> -48]
\* 30.0
F30 == [neg |-> FALSE, m |-> <<0, 0, 0, 1920>>, e |-> -48]

\* Python's None, for attributes that hold strings
None == "<None>"
\* an Optional[int] / Optional[float] attribute: <<>> is None, <<v>> a value
NoNum == <<>>

(***************************************************************************)
(* team_optimizer.py: RARITY_WEIGHTS, Treasure, Cookie                     *)
(***************************************************************************)
RARITY_WEIGHTS ==
  [Beast |-> F7, Ancient_Ascended |-> F6_5, Ancient |-> F6,
   Legendary |-> F5, Dragon |-> F5, Super_Epic |-> F4, Epic |-> F3,
   Special |-> F2, Rare |-> F1, Common |-> F0_5]

\* the record key of a rarity string ("Ancient (Ascended)", "Super Epic")
RarityKey(rarity) ==
  IF rarity = "Ancient (Ascended)" THEN "Ancient_Ascended"
  ELSE IF rarity = "Super Epic" THEN "Super_Epic"
  ELSE rarity

\* RARITY_WEIGHTS.get(rarity, 1.0)
RarityWeight(rarity) ==
  IF RarityKey(rarity) \in DOMAIN RARITY_WEIGHTS
    THEN RARITY_WEIGHTS[RarityKey(rarity)]
    ELSE F1

\* Treasure.get_power_score
tier_scores == [Splus |-> F10, S |-> F8_5, A |-> F7, B |-> F5_5, C |-> F4]
TierKey(tier) == IF tier = "S+" THEN "Splus" ELSE tier
Treasure_get_power_score(t) ==
  LET base_score == IF TierKey(t.tier_ranking) \in DOMAIN tier_scores
                      THEN tier_scores[TierKey(t.tier_ranking)] ELSE F5
      with_universal == IF "Universal" \in t.recommended_archetypes
                          THEN FAdd(base_score, F1) ELSE base_score
  IN FMin(with_universal, F10)

\* Python truthiness of an Optional number: None and 0 are falsy
Truthy(opt) == opt # NoNum /\ opt[1].m # <<>>

\* an advanced score whose skill term is not scaled by 7.0
calculate_advanced_score_skill_unscaled(c) ==
  LET rarity_score == FMul(RarityWeight(c.rarity), F0_4)
      skill_score == IF c.skill_level # NoNum
                       THEN FMul(FDivInt(c.skill_level[1], 60), F0_35)
                       ELSE FZero
      level_score == IF c.cookie_level # NoNum
                       THEN FMul(FMul(FDivInt(c.cookie_level[1], 70), F0_15), F7)
                       ELSE FZero
      topping_score == IF c.topping_quality # NoNum
                         THEN FMul(FMul(FDivInt(c.topping_quality[1], 5), F0_1), F7)
                         ELSE FZero
  IN FAdd(FAdd(FAdd(rarity_score, skill_score), level_score), topping_score)

\* Cookie._calculate_advanced_score
calculate_advanced_score(c) ==
  LET rarity_score == FMul(RarityWeight(c.rarity), F0_4)
      skill_score == IF c.skill_level # NoNum
                       THEN FMul(FMul(FDivInt(c.skill_level[1], 60), F0_35), F7)
                       ELSE FZero
      level_score == IF c.cookie_level # NoNum
                       THEN FMul(FMul(FDivInt(c.cookie_level[1], 70), F0_15), F7)
                       ELSE FZero
      topping_score == IF c.topping_quality # NoNum
                         THEN FMul(FMul(FDivInt(c.topping_quality[1], 5), F0_1), F7)
                         ELSE FZero
  IN FAdd(FAdd(FAdd(rarity_score, skill_score), level_score), topping_score)

\* Cookie.get_power_score
get_power_score(c) ==
  IF Truthy(c.cookie_level) \/ Truthy(c.skill_level) \/ Truthy(c.topping_quality)
    THEN calculate_advanced_score(c)
    ELSE RarityWeight(c.rarity)


(***************************************************************************)
(* Helpers over lists, as Python evaluates them.                           *)
(***************************************************************************)
Range(s) == {s[i] : i \in DOMAIN s}

\* sum(xs): 0 + xs[1] + xs[2] + ..., added left to right
FSum(xs) ==
  LET upto[n \in 0..Len(xs)] == IF n = 0 THEN FZero ELSE FAdd(upto[n - 1], xs[n])
  IN upto[Len(xs)]

\* Counter(xs)[v]
Count(xs, v) == Cardinality({i \in DOMAIN xs : xs[i] = v})

(***************************************************************************)
(* synergy_calculator.py: ROLE_SYNERGY_MATRIX and calculate_team_synergy   *)
(***************************************************************************)
ROLE_SYNERGY_MATRIX ==
  [Defense |-> [Healing |-> F1, Support |-> F0_9, Magic |-> F0_7, Ranged |-> F0_7,
                Bomber |-> F0_7, Ambush |-> F0_6, Charge |-> F0_5, Defense |-> F0_4],
   Charge  |-> [Healing |-> F1, Support |-> F0_9, Magic |-> F0_7, Ranged |-> F0_7,
                Bomber |-> F0_7, Ambush |-> F0_6, Defense |-> F0_5, Charge |-> F0_4],
   Healing |-> [Defense |-> F1, Charge |-> F1, Magic |-> F0_9, Ranged |-> F0_9,
                Bomber |-> F0_9, Ambush |-> F0_9, Support |-> F0_8, Healing |-> F0_3],
   Support |-> [Defense |-> F0_9, Charge |-> F0_9, Magic |-> F0_9, Ranged |-> F0_9,
                Bomber |-> F0_9, Ambush |-> F0_8, Healing |-> F0_8, Support |-> F0_5],
   Magic   |-> [Healing |-> F0_9, Support |-> F0_9, Defense |-> F0_7, Charge |-> F0_7,
                Ranged |-> F0_7, Bomber |-> F0_7, Ambush |-> F0_7, Magic |-> F0_6],
   Ranged  |-> [Healing |-> F0_9, Support |-> F0_9, Defense |-> F0_7, Charge |-> F0_7,
                Magic |-> F0_7, Bomber |-> F0_7, Ambush |-> F0_7, Ranged |-> F0_6],
   Bomber  |-> [Healing |-> F0_9, Support |-> F0_9, Defense |-> F0_7, Charge |-> F0_7,
                Magic |-> F0_7, Ranged |-> F0_7, Ambush |-> F0_7, Bomber |-> F0_6],
   Ambush  |-> [Healing |-> F0_9, Support |-> F0_8, Defense |-> F0_6, Charge |-> F0_6,
                Magic |-> F0_7, Ranged |-> F0_7, Bomber |-> F0_7, Ambush |-> F0_6]]

TYPE_SYNERGY_THRESHOLD == 3

\* "role1 in self.role_matrix and role2 in self.role_matrix[role1]"
InRoleMatrix(role1, role2) ==
  role1 \in DOMAIN ROLE_SYNERGY_MATRIX /\ role2 \in DOMAIN ROLE_SYNERGY_MATRIX[role1]

\* self.role_matrix[role1][role2], role1 the role of the earlier cookie of the list
RoleMatrixLookup(role1, role2) == ROLE_SYNERGY_MATRIX[role1][role2]

\* "if x and x != 'None'" for an optional string
Set(x) == x # None /\ x # "" /\ x # "None"

\* calculate_cookie_synergy: the "Elemental synergy" block.  The element of a
\* Cookie is a string or None; None is no string, so it differs from 'N/A'.
ElementalSynergy(synergy_score, cookie1, cookie2) ==
  IF cookie1.rarity # "N/A" /\ cookie2.rarity # "N/A"
    THEN IF /\ cookie1.element # "N/A" /\ cookie2.element # "N/A"
            /\ cookie1.element = cookie2.element
           THEN FAdd(synergy_score, F2)
           ELSE IF cookie1.element # "N/A" /\ cookie2.element # "N/A"
                  THEN FAdd(synergy_score, F0_3)
                  ELSE synergy_score
    ELSE synergy_score

\* calculate_cookie_synergy: the "CC + Burst Damage" if / elif
CCBurstPair(cookie1, cookie2) ==
  IF Set(cookie1.crowd_control)
    THEN cookie2.skill_type = "Damage"
    ELSE Set(cookie2.crowd_control) /\ cookie1.skill_type = "Damage"

\* calculate_cookie_synergy: the "Immunity + Dispel" if / elif
ImmunityDispelPair(cookie1, cookie2) ==
  IF Set(cookie1.grants_immunity)
    THEN cookie2.dispel
    ELSE Set(cookie2.grants_immunity) /\ cookie1.dispel

\* SynergyCalculator.calculate_cookie_synergy
calculate_cookie_synergy(cookie1, cookie2) ==
  FMin(
    AddIf(cookie1.anti_tank /\ cookie2.anti_tank,
      AddIf(ImmunityDispelPair(cookie1, cookie2),
        AddIf(\/ cookie1.provides_healing /\ cookie2.provides_shield
              \/ cookie2.provides_healing /\ cookie1.provides_shield,
          AddIf(CCBurstPair(cookie1, cookie2),
            ElementalSynergy(
              FAdd(
                IF InRoleMatrix(cookie1.role, cookie2.role)
                  THEN FAdd(FZero, FMul(RoleMatrixLookup(cookie1.role, cookie2.role), F4))
                  ELSE FZero,
                IF cookie1.position # cookie2.position THEN F1_5 ELSE F0_5),
              cookie1, cookie2),
            F1_5),
          F1),
        F1),
      F1),
    F12)

\* the (i, j) pairs, i < j, in the order of the two nested loops
PairsOf(n) ==
  LET row(i) == [k \in 1..(n - i) |-> <<i, i + k>>]
      rows[i \in 0..n] == IF i = 0 THEN <<>> ELSE rows[i - 1] \o row(i)
  IN rows[n]

\* role_pairs: the matrix value of every pair whose roles the matrix knows
RolePairsOf(cs) ==
  LET pairs == PairsOf(Len(cs))
      Entry(k) ==
        LET role1 == cs[pairs[k][1]].role
            role2 == cs[pairs[k][2]].role
        IN IF InRoleMatrix(role1, role2) THEN <<RoleMatrixLookup(role1, role2)>> ELSE <<>>
      upto[k \in 0..Len(pairs)] == IF k = 0 THEN <<>> ELSE upto[k - 1] \o Entry(k)
  IN upto[Len(pairs)]

role_synergy(cs) ==
  LET role_pairs == RolePairsOf(cs)
  IN IF role_pairs # <<>>
       THEN FMul(FDivInt(FSum(role_pairs), Len(role_pairs)), F30)
       ELSE FZero

position_synergy(cs) ==
  LET positions == {cs[i].position : i \in DOMAIN cs}
      position_coverage == Cardinality(positions)
      CountAt(p) == Cardinality({i \in DOMAIN cs : cs[i].position = p})
      base == IF position_coverage = 3 THEN F20
              ELSE IF position_coverage = 2 THEN F12 ELSE F5
      \* sorted(position_counts) == [1, 2, 2]
      balanced == /\ position_coverage = 3
                  /\ Cardinality({p \in positions : CountAt(p) = 1}) = 1
                  /\ Cardinality({p \in positions : CountAt(p) = 2}) = 2
  IN IF balanced THEN FAdd(base, F5) ELSE base

HasElement(c) == c.element # None /\ c.element # "" /\ c.element # "N/A"

\* element synergy without the test total_with_elements > 0
element_synergy_without_presence_test(cs) ==
  LET with_elements == {i \in DOMAIN cs : HasElement(cs[i])}
      elements == {cs[i].element : i \in with_elements}
      CountOf(el) == Cardinality({i \in with_elements : cs[i].element = el})
      max_element_count ==
        IF elements = {} THEN 0
        ELSE CHOOSE n \in {CountOf(el) : el \in elements} :
               \A el \in elements : CountOf(el) <= n
  IN IF max_element_count >= 5 THEN F25
     ELSE IF max_element_count = 4 THEN F20
     ELSE IF max_element_count = 3 THEN F15
     ELSE IF max_element_count = 2 THEN F8
     ELSE F3

element_synergy(cs) ==
  LET with_elements == {i \in DOMAIN cs : HasElement(cs[i])}
      elements == {cs[i].element : i \in with_elements}
      CountOf(el) == Cardinality({i \in with_elements : cs[i].element = el})
      max_element_count ==
        IF elements = {} THEN 0
        ELSE CHOOSE n \in {CountOf(el) : el \in elements} :
               \A el \in elements : CountOf(el) <= n
  IN IF with_elements = {} THEN FZero
     ELSE IF max_element_count >= 5 THEN F25
     ELSE IF max_element_count = 4 THEN F20
     ELSE IF max_element_count = 3 THEN F15
     ELSE IF max_element_count = 2 THEN F8
     ELSE F3

high_tier_types == {"Beast", "Ancient", "Ancient (Ascended)", "Legendary", "Dragon"}

\* the first rarity, in order of first appearance, that is high-tier with count >= 3
type_synergy(cs) ==
  LET rarities == [i \in DOMAIN cs |-> cs[i].rarity]
      hits == {i \in DOMAIN cs :
                 /\ rarities[i] \in high_tier_types
                 /\ Count(rarities, rarities[i]) >= TYPE_SYNERGY_THRESHOLD}
  IN IF hits = {} THEN FZero
     ELSE LET first == CHOOSE i \in hits : \A k \in hits : i <= k
              count == Count(rarities, rarities[first])
          IN IF count = 5 THEN F15
             ELSE IF count = 4 THEN F12
             ELSE IF count = 3 THEN F8
             ELSE FZero

coverage_synergy(cs) ==
  LET roles == {cs[i].role : i \in DOMAIN cs}
      tank == IF roles \cap {"Defense", "Charge"} # {} THEN F3 ELSE FZero
      healer == IF roles \cap {"Healing", "Support"} # {} THEN F3 ELSE FZero
      dps == IF roles \cap {"Magic", "Ranged", "Bomber", "Ambush"} # {} THEN F2 ELSE FZero
      diverse == IF Cardinality(roles) >= 4 THEN F2 ELSE FZero
  IN FAdd(FAdd(FAdd(FAdd(FZero, tank), healer), dps), diverse)

HasCC(c) == c.crowd_control # None /\ c.crowd_control # "" /\ c.crowd_control # "None"
HasImmunity(c) ==
  c.grants_immunity # None /\ c.grants_immunity # "" /\ c.grants_immunity # "None"

ability_synergy(cs) ==
  LET has_cc == \E i \in DOMAIN cs : HasCC(cs[i])
      has_burst_damage == \E i \in DOMAIN cs : cs[i].skill_type = "Damage"
      has_healing == \E i \in DOMAIN cs : cs[i].provides_healing
      has_shield == \E i \in DOMAIN cs : cs[i].provides_shield
      has_immunity == \E i \in DOMAIN cs : HasImmunity(cs[i])
      has_dispel == \E i \in DOMAIN cs : cs[i].dispel
      num_anti_tank == Cardinality({i \in DOMAIN cs : cs[i].anti_tank})
  IN FMin(AddIf(num_anti_tank >= 2,
                AddIf(has_immunity /\ has_dispel,
                      AddIf(has_healing /\ has_shield,
                            AddIf(has_cc /\ has_burst_damage, FZero, F2_5),
                            F2_5),
                      F2_5),
                FMin(FMul(FInt(num_anti_tank), F0_8), F2_5)),
          F10)

ZeroBreakdown ==
  [role_synergy |-> FZero, position_synergy |-> FZero, element_synergy |-> FZero,
   type_synergy |-> FZero, coverage_synergy |-> FZero, ability_synergy |-> FZero,
   total_score |-> FZero]

\* synergy_breakdown with its total_score, the six parts added in this order
Breakdown(r, p, el, t, cv, ab) ==
  [role_synergy |-> r, position_synergy |-> p, element_synergy |-> el,
   type_synergy |-> t, coverage_synergy |-> cv, ability_synergy |-> ab,
   total_score |-> FAdd(FAdd(FAdd(FAdd(FAdd(r, p), el), t), cv), ab)]

\* SynergyCalculator.calculate_team_synergy, on the team's cookie list
calculate_team_synergy(cs) ==
  IF Len(cs) # 5 THEN ZeroBreakdown
  ELSE Breakdown(role_synergy(cs), position_synergy(cs), element_synergy(cs),
                 type_synergy(cs), coverage_synergy(cs), ability_synergy(cs))


(***************************************************************************)
(* team_optimizer.py: Team.  A Team holds references to Cookie and         *)
(* Treasure objects: `cs` and `ts` below are the referenced objects as     *)
(* they are when the method runs.                                          *)
(***************************************************************************)
\* a role table that gives four distinct roles 20 points
calculate_role_diversity_score_20_for_4(cs) ==
  LET unique_roles == Cardinality({cs[i].role : i \in DOMAIN cs})
  IN CASE unique_roles = 5 -> 30
       [] unique_roles = 4 -> 20
       [] unique_roles = 3 -> 15
       [] unique_roles = 2 -> 8
       [] unique_roles = 1 -> 0
       [] OTHER -> 0

\* a position table that counts cookies, not distinct positions
calculate_position_coverage_score_of_cookies(cs) ==
  LET unique_positions == Len(cs)
  IN CASE unique_positions = 3 -> 25
       [] unique_positions = 2 -> 15
       [] unique_positions = 1 -> 5
       [] OTHER -> 0

calculate_role_diversity_score(cs) ==
  LET unique_roles == Cardinality({cs[i].role : i \in DOMAIN cs})
  IN CASE unique_roles = 5 -> 30
       [] unique_roles = 4 -> 24
       [] unique_roles = 3 -> 15
       [] unique_roles = 2 -> 8
       [] unique_roles = 1 -> 0
       [] OTHER -> 0

calculate_position_coverage_score(cs) ==
  LET unique_positions == Cardinality({cs[i].position : i \in DOMAIN cs})
  IN CASE unique_positions = 3 -> 25
       [] unique_positions = 2 -> 15
       [] unique_positions = 1 -> 5
       [] OTHER -> 0

calculate_power_score(cs) == FSum([i \in DOMAIN cs |-> get_power_score(cs[i])])

has_tank(cs) ==
  \E i \in DOMAIN cs : cs[i].position = "Front" /\ cs[i].role \in {"Defense", "Charge"}

has_healer(cs) == \E i \in DOMAIN cs : cs[i].role \in {"Healing", "Support"}

calculate_bonus_modifiers(cs) ==
  AddIf(\E i \in DOMAIN cs : cs[i].role \in {"Magic", "Ranged", "Bomber", "Ambush"},
        AddIf(has_healer(cs), AddIf(has_tank(cs), FZero, F3), F3),
        F2)

\* "if total > 0: bonus += min(total / k, 1.0)"
AddShareIf(bonus, total, k) ==
  AddIf(FGt(total, FZero), bonus, FMin(FDivInt(total, k), F1))

\* the summon-boost adjustment of special_bonus
SummonAdjust(special_bonus, summon_boost, has_summoner) ==
  IF summon_boost
    THEN (IF has_summoner THEN FAdd(special_bonus, F0_8) ELSE FSub(special_bonus, F0_3))
    ELSE special_bonus

calculate_treasure_bonus(cs, ts) ==
  IF ts = <<>> THEN FZero
  ELSE
    LET avg_treasure_power ==
          FDivInt(FSum([i \in DOMAIN ts |-> Treasure_get_power_score(ts[i])]), Len(ts))
        total_atk_boost == FSum([i \in DOMAIN ts |-> ts[i].atk_boost_max])
        total_crit_boost == FSum([i \in DOMAIN ts |-> ts[i].crit_boost_max])
        total_cdr == FSum([i \in DOMAIN ts |-> ts[i].cooldown_reduction_max])
        total_shields == FSum([i \in DOMAIN ts |-> ts[i].hp_shield_max])
        total_heals == FSum([i \in DOMAIN ts |-> ts[i].heal_max])
        bonus ==
          AddShareIf(
            AddShareIf(
              AddShareIf(FAdd(FZero, FMin(avg_treasure_power, F10)), total_atk_boost, 100),
              total_crit_boost, 30),
            total_cdr, 40)
        special_bonus ==
          SummonAdjust(
            AddIf(FGt(total_shields, FZero) \/ FGt(total_heals, FZero),
                  AddIf(\E i \in DOMAIN ts : ts[i].enemy_debuff,
                        AddIf(\E i \in DOMAIN ts : ts[i].debuff_cleanse,
                              AddIf(\E i \in DOMAIN ts : ts[i].revive, FZero, F0_5),
                              F0_3),
                        F0_4),
                  F0_5),
            \E i \in DOMAIN ts : ts[i].summon_boost,
            \E i \in DOMAIN cs : cs[i].skill_type = "Summon")
    IN FMin(FAdd(bonus, FMin(special_bonus, F2)), F15)

\* Team._calculate_synergy_bonus: (synergy_score / 100.0) * 20.0
calculate_synergy_bonus(breakdown) == FMul(FDivInt(breakdown.total_score, 100), F20)

\* Team.calculate_score; synergy_breakdown is what _calculate_synergy_bonus
\* assigns to self.synergy_breakdown when include_synergy is set
calculate_score(cs, ts, include_synergy, synergy_breakdown) ==
  LET role_score == calculate_role_diversity_score(cs)
      position_score == calculate_position_coverage_score(cs)
      power_score == calculate_power_score(cs)
      bonus_score == calculate_bonus_modifiers(cs)
      base_score == FAdd(FAdd(FInt(role_score + position_score), power_score), bonus_score)
      treasure_bonus == calculate_treasure_bonus(cs, ts)
  IN AddIf(include_synergy, FAdd(base_score, treasure_bonus),
           calculate_synergy_bonus(synergy_breakdown))


(***************************************************************************)
(* The objects of the model.  `heap` holds the Cookie objects; lists of    *)
(* cookies (the optimizer's pool, a Team's members) hold references into   *)
(* it, as Python lists do.  Treasure objects never change and are          *)
(* referenced by their position in TreasureObjects.                        *)
(***************************************************************************)
\* Cookie.__init__ with the defaults of the progression and ability attributes
Cookie(name, rarity, role, position, element) ==
  [name |-> name, rarity |-> rarity, role |-> role, position |-> position,
   element |-> IF element # None /\ element # "" /\ element # "N/A" THEN element ELSE None,
   cookie_level |-> NoNum, skill_level |-> NoNum, topping_quality |-> NoNum,
   skill_type |-> None, crowd_control |-> None, grants_immunity |-> None,
   provides_healing |-> FALSE, provides_shield |-> FALSE, anti_heal |-> FALSE,
   anti_tank |-> FALSE, dispel |-> FALSE, target_type |-> None, key_mechanic |-> None,
   synergy_groups |-> <<>>, special_combos |-> <<>>]

\* Treasure.__init__; recommended_archetypes is the list split at '|', as a set
Treasure(name, tier_ranking, atk_boost_max, cooldown_reduction_max, revive, recommended_archetypes) ==
  [name |-> name, tier_ranking |-> tier_ranking, atk_boost_max |-> atk_boost_max,
   crit_boost_max |-> FZero, cooldown_reduction_max |-> cooldown_reduction_max,
   hp_shield_max |-> FZero, heal_max |-> FZero, revive |-> revive,
   debuff_cleanse |-> FALSE, enemy_debuff |-> FALSE, summon_boost |-> FALSE,
   recommended_archetypes |-> recommended_archetypes]

\* The Cookie objects that exist.  E and F differ in name only; the last
\* object is a second Cookie named "A".
CookieObjects ==
  << Cookie("A", "Epic", "Ranged", "Middle", "Light"),
     Cookie("B", "Beast", "Bomber", "Middle", "Light"),
     Cookie("C", "Epic", "Magic", "Rear", "Light"),
     Cookie("D", "Epic", "Magic", "Front", None),
     Cookie("E", "Rare", "Healing", "Middle", "Fire"),
     Cookie("F", "Rare", "Healing", "Middle", "Fire"),
     Cookie("G", "Legendary", "Defense", "Front", "N/A"),
     Cookie("A", "Common", "Support", "Rear", None) >>

\* a cookie name that no Cookie object carries
MISSING_NAME == "Z"

TreasureObjects ==
  << Treasure("Scroll", "S+", F30, FZero, FALSE, {"Universal"}),
     Treasure("Watch", "S", FZero, F20, FALSE, {"DPS"}),
     Treasure("Feather", "A", FZero, FZero, TRUE, {"Tank", "Healer"}),
     Treasure("Horn", "B", F15, FZero, FALSE, {}) >>

VARIABLES
  heap,          \* the Cookie objects, by reference
  all_cookies,   \* TeamOptimizer.all_cookies: references to the pool's cookies
  constructed,   \* outcomes of the Team(...) calls made so far (Team specification)
  request,       \* the arguments of the running find_best_teams call
  pc,            \* where the call is: idle, a strategy's loop, done, raised
  teams,         \* the strategy's list of candidate Teams
  generated,     \* iterations of the strategy's candidate loop so far
  population,    \* genetic search: the current population
  generation,    \* genetic search: generations completed
  result,        \* the list find_best_teams returned
  error,         \* the exception raised to the caller, or None
  response,      \* exhaustive search: what input() returned, or None
  counter_call,  \* <<the find_counter_teams call made, with its local variables>>, or <<>>
  next_generation, \* genetic search: the generation being bred
  attempts       \* genetic search: passes of the breeding loop in this generation

vars == <<heap, all_cookies, constructed, request, pc, teams, generated, population,
          generation, result, error, response, counter_call, next_generation,
          attempts>>

\* the Cookie objects a list of references names
Deref(refs) == [i \in DOMAIN refs |-> heap[refs[i]]]
\* the Treasure objects a list of references names
DerefTreasures(refs) == [i \in DOMAIN refs |-> TreasureObjects[refs[i]]]

(***************************************************************************)
(* Team.__init__, validate, equality and hash                              *)
(***************************************************************************)
\* len(set(xs)) for objects whose __eq__ and __hash__ go by name
DistinctNames(objs) == Cardinality({objs[i].name : i \in DOMAIN objs})

\* a validate that does not look for duplicate cookies
validate_raises_no_duplicate_check(self) ==
  LET cookies == Deref(self.cookies)
      treasures == DerefTreasures(self.treasures)
  IN \/ IF self.strict_validation
          THEN Len(cookies) # 5
          ELSE Len(cookies) < 1 \/ Len(cookies) > 5
     \/ Len(treasures) > 3
     \/ Len(treasures) # DistinctNames(treasures)

\* Team.validate raises ValueError
validate_raises(self) ==
  LET cookies == Deref(self.cookies)
      treasures == DerefTreasures(self.treasures)
  IN \/ IF self.strict_validation
          THEN Len(cookies) # 5
          ELSE Len(cookies) < 1 \/ Len(cookies) > 5
     \/ DistinctNames(cookies) # Len(cookies)
     \/ Len(treasures) > 3
     \/ Len(treasures) # DistinctNames(treasures)

\* self.synergy_breakdown = {}
EmptyBreakdown == <<>>

\* the Team object once calculate_score has run: synergy_breakdown as
\* _calculate_synergy_bonus left it, composition_score as returned.
\* (synergy_score and treasure_bonus are by-products that nothing here reads.)
ScoredTeam(self, synergy_breakdown) ==
  [cookies |-> self.cookies, treasures |-> self.treasures,
   include_synergy |-> self.include_synergy,
   strict_validation |-> self.strict_validation,
   synergy_breakdown |-> synergy_breakdown,
   composition_score |->
     calculate_score(Deref(self.cookies), DerefTreasures(self.treasures),
                     self.include_synergy, synergy_breakdown)]

\* Team(cookies, treasures, include_synergy, strict_validation): whether the
\* constructor raised, and the attributes assigned to the object by then.
TeamInit(cookies, treasures, include_synergy, strict_validation) ==
  LET self == [cookies |-> cookies, treasures |-> treasures,
               include_synergy |-> include_synergy,
               strict_validation |-> strict_validation]
  IN IF validate_raises(self)
       THEN [raised |-> TRUE, self |-> self]
       ELSE [raised |-> FALSE,
             self |-> ScoredTeam(self,
                                 IF include_synergy
                                   THEN calculate_team_synergy(Deref(cookies))
                                   ELSE EmptyBreakdown)]

\* Team.get_cookie_signature: frozenset(cookie.name for cookie in self.cookies)
get_cookie_signature(self) == {heap[self.cookies[i]].name : i \in DOMAIN self.cookies}

\* an equality that compares the lists of names, in their order
Team_eq_ordered(self, other) ==
  [i \in DOMAIN self.cookies |-> heap[self.cookies[i]].name]
    = [i \in DOMAIN other.cookies |-> heap[other.cookies[i]].name]

\* Team.__eq__ for another Team
Team_eq(self, other) == get_cookie_signature(self) = get_cookie_signature(other)

\* hash(str): some integer for each string
HashBits == 2 + 3
str_hash(s) ==
  CASE s = "A" -> 19 [] s = "B" -> 7 [] s = "C" -> 28 [] s = "D" -> 3
    [] s = "E" -> 22 [] s = "F" -> 13 [] s = "G" -> 30 [] OTHER -> 9

\* hash(frozenset): combines the members' hashes in an order-independent way
RECURSIVE frozenset_hash(_)
frozenset_hash(S) ==
  IF S = {} THEN 0
  ELSE LET x == CHOOSE y \in S : TRUE
       IN (str_hash(x) + frozenset_hash(S \ {x})) % (2 ^ HashBits)

\* Team.__hash__
Team_hash(self) == frozenset_hash(get_cookie_signature(self))

(***************************************************************************)
(* Specification SpecTeam: Team objects are constructed from lists of      *)
(* cookies and treasures and compared.                                     *)
(***************************************************************************)
MaxTeams == 2
MaxPoolSize == 6

Swap(s, i, j) == [s EXCEPT ![i] = s[j], ![j] = s[i]]
Reverse(s) == [i \in DOMAIN s |-> s[Len(s) + 1 - i]]

\* five different cookies, by reference
BaseTeam == <<1, 2, 3, 4, 5>>

\* The cookie lists handed to Team(...): BaseTeam with its first member
\* exchanged with another, reversed, cut short, extended by a sixth cookie, or
\* with its last member replaced by any Cookie object (one already in the
\* list, another one, or the second object named "A").
CookieLists ==
  {Swap(BaseTeam, 1, j) : j \in DOMAIN BaseTeam}
    \cup {Reverse(BaseTeam)}
    \cup {SubSeq(BaseTeam, 1, k) : k \in 0..Len(BaseTeam)}
    \cup {Append(BaseTeam, MaxPoolSize)}
    \cup {[BaseTeam EXCEPT ![Len(BaseTeam)] = c] : c \in DOMAIN CookieObjects}

\* The treasure lists handed to Team(...): none to four treasures, or one twice.
TreasureLists ==
  {[i \in 1..k |-> i] : k \in 0..Len(TreasureObjects)} \cup {<<1, 1>>}

Idle ==
  /\ request = None
  /\ pc = "idle"
  /\ teams = <<>>
  /\ generated = 0
  /\ population = <<>>
  /\ generation = 0
  /\ result = <<>>
  /\ error = None
  /\ response = None
  /\ counter_call = <<>>
  /\ next_generation = <<>>
  /\ attempts = 0

InitTeam ==
  /\ heap = CookieObjects
  /\ all_cookies = [i \in 1..MaxPoolSize |-> i]
  /\ constructed = <<>>
  /\ Idle

\* Team(cookies, treasures, include_synergy, strict_validation)
NewTeam(cookies, treasures, include_synergy, strict_validation) ==
  /\ constructed = <<>>
  /\ constructed' = <<TeamInit(cookies, treasures, include_synergy, strict_validation)>>
  /\ UNCHANGED <<next_generation, attempts, counter_call, response, heap, all_cookies, request, pc, teams, generated, population,
                 generation, result, error>>

\* Team(cookies, ...) with the treasures and options of the first Team
NewTeamLikeFirst(cookies) ==
  /\ Len(constructed) \in 1..(MaxTeams - 1)
  /\ ~constructed[1].raised
  /\ constructed' =
       Append(constructed,
              TeamInit(cookies, constructed[1].self.treasures,
                       constructed[1].self.include_synergy,
                       constructed[1].self.strict_validation))
  /\ UNCHANGED <<next_generation, attempts, counter_call, response, heap, all_cookies, request, pc, teams, generated, population,
                 generation, result, error>>

NextTeam ==
  \/ \E cookies \in CookieLists, treasures \in TreasureLists,
        include_synergy \in BOOLEAN, strict_validation \in BOOLEAN :
       NewTeam(cookies, treasures, include_synergy, strict_validation)
  \/ \E cookies \in CookieLists : NewTeamLikeFirst(cookies)

SpecTeam == InitTeam /\ [][NextTeam]_vars

\* combo_bonuses of Team.special_combo_score; min_members is absent for the
\* combos without optional members.  (The a of "a la Mode" carries a grave
\* accent in the source, here and in the names of the cookies alike.)
combo_bonuses ==
  << [name |-> "Citrus Party", required |-> {"Lemon Cookie"},
      optional |-> {"Orange Cookie", "Lime Cookie", "Grapefruit Cookie"},
      min_members |-> <<2>>, bonus |-> F20],
     [name |-> "The Protector of the Golden City", required |-> {"Golden Cheese Cookie"},
      optional |-> {"Burnt Cheese Cookie", "Smoked Cheese Cookie"},
      min_members |-> <<2>>, bonus |-> F15],
     [name |-> "Silver Knighthood",
      required |-> {"Mercurial Knight Cookie", "Silverbell Cookie"},
      optional |-> {}, min_members |-> <<>>, bonus |-> F25],
     [name |-> "Team Drizzle",
      required |-> {"Choco Drizzle Cookie", "Green Tea Mousse Cookie",
                    "Pudding a la Mode Cookie"},
      optional |-> {}, min_members |-> <<>>, bonus |-> F25],
     [name |-> "The Deceitful Trio",
      required |-> {"Shadow Milk Cookie", "Black Sapphire Cookie", "Candy Apple Cookie"},
      optional |-> {}, min_members |-> <<>>, bonus |-> F25] >>

\* the conditions under which the loop of special_combo_score takes a combo's bonus
combo_activated(combo_data, cookie_names) ==
  /\ combo_data.required \subseteq cookie_names
  /\ \/ combo_data.min_members = <<>>
     \/ Cardinality(cookie_names \cap (combo_data.required \cup combo_data.optional))
          >= combo_data.min_members[1]

\* special_combo_score adding the bonuses of the activated combos
special_combo_score_summed(self) ==
  LET cookie_names == get_cookie_signature(self)
      max_bonus[k \in 0..Len(combo_bonuses)] ==
        IF k = 0 THEN FZero
        ELSE IF combo_activated(combo_bonuses[k], cookie_names)
          THEN FAdd(max_bonus[k - 1], combo_bonuses[k].bonus)
          ELSE max_bonus[k - 1]
  IN max_bonus[Len(combo_bonuses)]

\* Team.special_combo_score: max_bonus after the loop over combo_bonuses
special_combo_score(self) ==
  LET cookie_names == get_cookie_signature(self)
      max_bonus[k \in 0..Len(combo_bonuses)] ==
        IF k = 0 THEN FZero
        ELSE IF /\ combo_activated(combo_bonuses[k], cookie_names)
                /\ FGt(combo_bonuses[k].bonus, max_bonus[k - 1])
          THEN combo_bonuses[k].bonus
          ELSE max_bonus[k - 1]
  IN max_bonus[Len(combo_bonuses)]

\* the Team objects whose construction succeeded
ConstructedTeams == {constructed[k].self : k \in {i \in DOMAIN constructed : ~constructed[i].raised}}

\* the names of the cookies of a list of references
NamesOf(refs) == {heap[refs[i]].name : i \in DOMAIN refs}

\* C1: two Teams are equal exactly when their sets of cookie names are equal
\* (whatever the order of their cookies), and equal Teams have equal hashes.
C1_EqualIffSameNameSet ==
  \A t1, t2 \in ConstructedTeams :
    /\ Team_eq(t1, t2) <=>
         /\ \A i \in DOMAIN t1.cookies : heap[t1.cookies[i]].name \in NamesOf(t2.cookies)
         /\ \A j \in DOMAIN t2.cookies : heap[t2.cookies[j]].name \in NamesOf(t1.cookies)
    /\ Team_eq(t1, t2) => Team_hash(t1) = Team_hash(t2)

\* two Teams of the same five cookies in different orders have been built and are equal
C1_Witness ==
  /\ Len(constructed) = 2
  /\ ~constructed[1].raised /\ ~constructed[2].raised
  /\ Len(constructed[1].self.cookies) = 5
  /\ constructed[1].self.cookies # constructed[2].self.cookies
  /\ Range(constructed[1].self.cookies) = Range(constructed[2].self.cookies)
  /\ Team_eq(constructed[1].self, constructed[2].self)

\* the arguments of a Team(...) call satisfy the constructor's requirements
ValidArguments(self) ==
  /\ IF self.strict_validation
       THEN Len(self.cookies) = 5
       ELSE Len(self.cookies) \in 1..5
  /\ \A i, j \in DOMAIN self.cookies :
       i # j => heap[self.cookies[i]].name # heap[self.cookies[j]].name
  /\ Len(self.treasures) <= 3
  /\ \A i, j \in DOMAIN self.treasures :
       i # j => TreasureObjects[self.treasures[i]].name # TreasureObjects[self.treasures[j]].name

\* C2: Team construction succeeds exactly when the cookie count is 5 (strict)
\* or 1 to 5 (relaxed), no two cookies and no two treasures share a name and
\* there are at most 3 treasures; otherwise it raises, and the object never
\* gets a composition_score.
C2_ConstructionValidates ==
  \A k \in DOMAIN constructed :
    /\ constructed[k].raised <=> ~ValidArguments(constructed[k].self)
    /\ constructed[k].raised <=> "composition_score" \notin DOMAIN constructed[k].self

\* a Team(...) call with five cookies, two of them different objects of one name, has raised
C2_Witness ==
  \E k \in DOMAIN constructed :
    /\ constructed[k].raised
    /\ constructed[k].self.strict_validation
    /\ Len(constructed[k].self.cookies) = 5
    /\ Cardinality(Range(constructed[k].self.cookies)) = 5
    /\ Len(constructed[k].self.treasures) <= 1


(***************************************************************************)
(* TeamOptimizer: the search strategies behind find_best_teams.            *)
(* A strategy's loop is one action per iteration; `pc` names the method    *)
(* that is executing.                                                      *)
(***************************************************************************)
MinPoolSize == 3
MaxN == 2
MaxCandidates == 3
MaxGenerations == 2
MaxPopulationSize == 3
MinRequired == 3
MaxRequired == 6

Min(a, b) == IF b < a THEN b ELSE a
Max(a, b) == IF b > a THEN b ELSE a

\* s[:n] for n >= 0
Take(s, n) == SubSeq(s, 1, Min(n, Len(s)))

\* c.name in names
NameIn(c, names) == heap[c].name \in Range(names)
\* c in cookies, for a list of Cookie objects (Cookie.__eq__ compares names)
CookieIn(c, cookies) == \E i \in DOMAIN cookies : heap[cookies[i]].name = heap[c].name

\* random.sample(s, k): the k-element lists of different positions of s
Samples(s, k) ==
  {[i \in 1..k |-> s[f[i]]] :
     f \in {g \in [1..k -> DOMAIN s] : \A i, j \in 1..k : i # j => g[i] # g[j]}}

\* sorted(s, key=..., reverse=True) where keys[i] is the key of s[i]: the sort
\* is stable, and with reverse=True elements of equal key keep their order
PlaceDesc(keys, i) ==
  1 + Cardinality({j \in DOMAIN keys :
                     \/ FGt(keys[j], keys[i])
                     \/ FCmp(keys[j], keys[i]) = 0 /\ j < i})
SortedDesc(s, keys) ==
  [p \in DOMAIN s |-> s[CHOOSE i \in DOMAIN s : PlaceDesc(keys, i) = p]]

\* a population that is left in the order it has
SortTeams_left_unsorted(ts) == ts

\* ts.sort(key=lambda t: t.composition_score, reverse=True)
SortTeams(ts) == SortedDesc(ts, [i \in DOMAIN ts |-> ts[i].composition_score])

\* "try: teams.append(Team(cookies)) / except ValueError: continue"
AppendUnlessRaised(ts, outcome) == IF outcome.raised THEN ts ELSE Append(ts, outcome.self)
TryAppend(ts, cookies) == AppendUnlessRaised(ts, TeamInit(cookies, <<>>, TRUE, TRUE))

\* required = [c for c in self.all_cookies if c.name in required_cookies]
RequiredObjects(required_cookies) ==
  SelectSeq(all_cookies, LAMBDA c : NameIn(c, required_cookies))

\* slots_to_fill = 5 - len(required)
slots_to_fill(required) == 5 - Len(required)

(***************************************************************************)
(* generate_random_teams                                                   *)
(***************************************************************************)
\* available = [c for c in self.all_cookies if c.name not in (required_cookies or [])]
random_available(required_cookies) ==
  SelectSeq(all_cookies, LAMBDA c : ~NameIn(c, required_cookies))

\* the three "raise ValueError" of generate_random_teams, which precede its loop
generate_random_teams_raises(required_cookies) ==
  \/ required_cookies # <<>> /\ Len(RequiredObjects(required_cookies)) # Len(required_cookies)
  \/ slots_to_fill(RequiredObjects(required_cookies)) < 0
  \/ slots_to_fill(RequiredObjects(required_cookies)) > Len(random_available(required_cookies))

\* selected_cookies after one iteration's random.sample
RandomSelections(required_cookies) ==
  {RequiredObjects(required_cookies) \o s :
     s \in Samples(random_available(required_cookies),
                   slots_to_fill(RequiredObjects(required_cookies)))}

(***************************************************************************)
(* _generate_greedy_teams                                                  *)
(***************************************************************************)
\* sorted(self.all_cookies, key=lambda c: c.get_power_score(), reverse=True)
sorted_cookies ==
  SortedDesc(all_cookies, [i \in DOMAIN all_cookies |-> get_power_score(heap[all_cookies[i]])])

\* available_sorted = [c for c in sorted_cookies if c not in required]
available_sorted(required) == SelectSeq(sorted_cookies, LAMBDA c : ~CookieIn(c, required))

\* the list random.choice draws the first cookie from
GreedyFirstChoices(avail) ==
  IF Len(avail) >= 10 THEN Take(avail, 10) ELSE Take(avail, Max(1, Len(avail)))

\* remaining = [c for c in available_sorted if c not in team_cookies][:len(available_sorted)//2]
GreedyRemaining(avail, team_cookies) ==
  Take(SelectSeq(avail, LAMBDA c : ~CookieIn(c, team_cookies)), Len(avail) \div 2)

\* team_cookies extended by random.sample(remaining, needed) "if needed > 0"
GreedyFill(team_cookies, remaining, needed) ==
  {team_cookies \o s : s \in Samples(remaining, needed)}

\* team_cookies at the end of one iteration, for every outcome of its random draws
GreedySelections(required, avail) ==
  IF slots_to_fill(required) > 0
    THEN UNION {GreedyFill(Append(required, first),
                           GreedyRemaining(avail, Append(required, first)),
                           Min(slots_to_fill(required) - 1,
                               Len(GreedyRemaining(avail, Append(required, first))))) :
                  first \in Range(GreedyFirstChoices(avail))}
    ELSE {required}

(***************************************************************************)
(* _generate_exhaustive_teams                                              *)
(***************************************************************************)
SAFETY_THRESHOLD == 1000000

\* how many iterations of the loop over the combinations are followed
MaxEnumerated == 3

\* math.comb(n, k) for n >= 0 and k >= 0 (it raises ValueError for k < 0)
RECURSIVE comb(_, _)
comb(n, k) ==
  IF k = 0 THEN 1
  ELSE IF n < k THEN 0
  ELSE (comb(n - 1, k - 1) * n) \div k

\* a window of k neighbouring elements, whatever the index
combinations_of_neighbours(s, k, index) ==
  SubSeq(s, 1 + (index % (Len(s) - k + 1)), k + (index % (Len(s) - k + 1)))

\* itertools.combinations(s, k) for 0 <= k <= Len(s): the combination it emits
\* after `index` others.  It emits the k-element sublists of s in
\* lexicographic order of their positions, so those that start with s[1],
\* comb(Len(s) - 1, k - 1) of them, come first.
RECURSIVE combinations(_, _, _)
combinations(s, k, index) ==
  IF k = 0 THEN <<>>
  ELSE IF index < comb(Len(s) - 1, k - 1)
         THEN <<Head(s)>> \o combinations(Tail(s), k - 1, index)
         ELSE combinations(Tail(s), k, index - comb(Len(s) - 1, k - 1))

\* available = [c for c in self.all_cookies if c not in required]
exhaustive_available(required) == SelectSeq(all_cookies, LAMBDA c : ~CookieIn(c, required))

\* total_combos = comb(len(available), slots_to_fill)
total_combos(required) == comb(Len(exhaustive_available(required)), slots_to_fill(required))

\* what the user may type at "Continue? (yes/no): "
Responses == {"yes", "YES", "no", "y", ""}
\* str.lower, on the responses above
lower(s) == IF s = "YES" THEN "yes" ELSE s

(***************************************************************************)
(* _generate_genetic_teams, _crossover_teams, _mutate_team                 *)
(***************************************************************************)
\* elite_count = max(2, population_size // 5)
elite_count(population_size) == Max(2, population_size \div 5)

\* list(set(cookies)): one Cookie of each name, the one that comes first
UniqueCookies(cookies) ==
  SelectSeq([i \in DOMAIN cookies |-> [c |-> cookies[i], first |->
               \A j \in 1..(i - 1) : heap[cookies[j]].name # heap[cookies[i]].name]],
            LAMBDA x : x.first)

\* the cookies the child draws from: those of both parents that are not required
crossover_available(team1, team2, required) ==
  SelectSeq([i \in DOMAIN UniqueCookies(team1.cookies \o team2.cookies) |->
               UniqueCookies(team1.cookies \o team2.cookies)[i].c],
            LAMBDA c : ~CookieIn(c, required))

\* extra_cookies = [c for c in self.all_cookies if c not in selected and c not in required]
crossover_extra(selected, required) ==
  SelectSeq(all_cookies, LAMBDA c : ~CookieIn(c, selected) /\ ~CookieIn(c, required))

\* the lists `selected` can be, given available and slots_to_fill (set order
\* and random.sample decide among them)
crossover_selected(available, required, slots) ==
  IF Len(available) >= slots
    THEN Samples(available, slots)
    ELSE {p \o e : p \in Samples(available, Len(available)),
                   e \in Samples(crossover_extra(available, required),
                                 slots - Len(available))}

\* the cookie lists _crossover_teams(team1, team2, required_cookies) can return
crossover_teams(team1, team2, required_cookies) ==
  {SelectSeq(team1.cookies, LAMBDA c : NameIn(c, required_cookies)) \o selected :
     selected \in
       crossover_selected(
         crossover_available(team1, team2,
                             SelectSeq(team1.cookies, LAMBDA c : NameIn(c, required_cookies))),
         SelectSeq(team1.cookies, LAMBDA c : NameIn(c, required_cookies)),
         slots_to_fill(SelectSeq(team1.cookies, LAMBDA c : NameIn(c, required_cookies))))}

\* new_cookies = [replacement if c == to_replace else c for c in cookies]
Replace(cookies, to_replace, replacement) ==
  [i \in DOMAIN cookies |->
     IF heap[cookies[i]].name = heap[to_replace].name THEN replacement ELSE cookies[i]]

\* a mutation whose replacement may be a cookie the team already holds
mutate_team_with_any_replacement(cookies, required_cookies) ==
  IF SelectSeq(cookies, LAMBDA c : ~NameIn(c, required_cookies)) = <<>>
    THEN {cookies}
    ELSE {Replace(cookies, to_replace, replacement) :
            to_replace \in Range(SelectSeq(cookies, LAMBDA c : ~NameIn(c, required_cookies))),
            replacement \in Range(all_cookies)}

\* the cookie lists _mutate_team(cookies, required_cookies) can return
mutate_team(cookies, required_cookies) ==
  IF \/ SelectSeq(cookies, LAMBDA c : ~NameIn(c, required_cookies)) = <<>>
     \/ SelectSeq(all_cookies, LAMBDA c : ~CookieIn(c, cookies)) = <<>>
    THEN {cookies}
    ELSE {Replace(cookies, to_replace, replacement) :
            to_replace \in Range(SelectSeq(cookies, LAMBDA c : ~NameIn(c, required_cookies))),
            replacement \in Range(SelectSeq(all_cookies, LAMBDA c : ~CookieIn(c, cookies)))}

\* child_cookies of one pass of the breeding loop: two parents sampled from the
\* elites, crossed over, and mutated or not ("if random.random() < 0.1")
ChildCookies(elites, required_cookies) ==
  UNION {{child} \cup mutate_team(child, required_cookies) :
           child \in UNION {crossover_teams(parents[1], parents[2], required_cookies) :
                              parents \in Samples(elites, 2)}}

\* the Teams the breeding loop can append: a pass whose Team(child_cookies)
\* raises ValueError appends nothing and the loop goes on
Successful(outcomes) == {o.self : o \in {x \in outcomes : ~x.raised}}
Children(elites, required_cookies) ==
  Successful({TeamInit(child_cookies, <<>>, TRUE, TRUE) :
                child_cookies \in ChildCookies(elites, required_cookies)})

\* a breeding loop that appends population_size children whatever it starts with
ChildrenNeeded_not_counting_elites(population_size, elites) == population_size

\* how many Teams "while len(next_generation) < population_size" appends to
\* "next_generation = elites.copy()"
ChildrenNeeded(population_size, elites) ==
  Max(population_size - Len(elites), 0)

(***************************************************************************)
(* find_best_teams and the specification Spec: one call of                 *)
(* find_best_teams on a pool of MinPoolSize..MaxPoolSize cookies, or an    *)
(* exhaustive search of a pool of about LargePoolSize cookies.             *)
(***************************************************************************)
\* 44 is the smallest pool of which more than 1,000,000 teams of 5 can be made
LargePoolSize == 44

\* further Cookie objects for the large pools, the i-th object of the heap
OtherCookie(i) ==
  Cookie(ToString(i), "Epic", IF i % 2 = 0 THEN "Magic" ELSE "Charge",
         IF i % 3 = 0 THEN "Front" ELSE IF i % 3 = 1 THEN "Middle" ELSE "Rear", None)

\* the Cookie objects when the pool has P cookies
HeapOf(P) ==
  IF P <= MaxPoolSize THEN CookieObjects
  ELSE CookieObjects
         \o [i \in 1..(P + 1 - Len(CookieObjects)) |-> OtherCookie(Len(CookieObjects) + i)]

\* a pool of P cookies of different names (the second Cookie named "A" is in none)
PoolOf(P) ==
  IF P <= MaxPoolSize THEN [i \in 1..P |-> i]
  ELSE [i \in 1..P |-> IF i < Len(CookieObjects) THEN i ELSE i + 1]

\* the lists of required names: the names of the first k Cookie objects (some
\* of them outside a small pool), and three names with an unknown one
RequiredChoices ==
  {[i \in 1..k |-> CookieObjects[i].name] : k \in MinRequired..MaxRequired}
    \cup {Append([i \in 1..MinRequired |-> CookieObjects[i].name], MISSING_NAME)}

\* The calls made.  num_candidates is varied for the strategies that read it
\* (for 'genetic' it is the number of generations).  find_best_teams runs the
\* genetic strategy with its default population_size, 50; here the same code
\* runs with the population sizes 1..MaxPopulationSize.  "best" is a method
\* name find_best_teams does not know; its 'synergy' strategy is not called.
\* On the large pools the only call is an exhaustive search without required
\* cookies.
Calls ==
  IF Len(all_cookies) > MaxPoolSize
    THEN [method : {"exhaustive"}, n : 1..MaxN, num_candidates : {MaxCandidates},
          required_cookies : {<<>>}, population_size : {0}]
    ELSE
      [method : {"random"}, n : 1..MaxN, num_candidates : 1..MaxCandidates,
       required_cookies : RequiredChoices, population_size : {0}]
        \cup [method : {"greedy", "exhaustive"}, n : 1..MaxN, num_candidates : {MaxCandidates},
              required_cookies : RequiredChoices, population_size : {0}]
        \cup [method : {"genetic"}, n : 1..MaxN, num_candidates : 1..MaxGenerations,
              required_cookies : RequiredChoices, population_size : 1..MaxPopulationSize]
        \cup [method : {"best"}, n : 1..MaxN, num_candidates : {MaxCandidates},
              required_cookies : RequiredChoices, population_size : {0}]

Init ==
  /\ \E P \in (MinPoolSize..MaxPoolSize) \cup {LargePoolSize - 1, LargePoolSize} :
       /\ heap = HeapOf(P)
       /\ all_cookies = PoolOf(P)
  /\ constructed = <<>>
  /\ Idle

\* find_best_teams(n, method, num_candidates, required_cookies), entered, up
\* to the loop of the strategy it dispatches to
find_best_teams_entered(call) ==
  /\ request' = call
  /\ IF call.method \in {"random", "genetic"}
       THEN IF generate_random_teams_raises(call.required_cookies)
              THEN pc' = "raised" /\ error' = "ValueError"
              ELSE pc' = "generate_random_teams" /\ error' = error
       ELSE IF call.method \in {"greedy", "exhaustive"}
              THEN pc' = call.method /\ error' = error
              ELSE pc' = "raised" /\ error' = "ValueError"
  /\ UNCHANGED <<next_generation, attempts, counter_call, response, heap, all_cookies, constructed, teams, generated, population,
                 generation, result>>

\* optimizer.find_best_teams(...), called by the user
find_best_teams(call) == pc = "idle" /\ find_best_teams_entered(call)

\* how many teams generate_random_teams was asked for
RandomCount ==
  IF request.method = "genetic" THEN request.population_size ELSE request.num_candidates

\* one iteration of generate_random_teams' loop
RandomIteration ==
  /\ pc = "generate_random_teams"
  /\ generated < RandomCount
  /\ \E selected_cookies \in RandomSelections(request.required_cookies) :
       teams' = TryAppend(teams, selected_cookies)
  /\ generated' = generated + 1
  /\ UNCHANGED <<next_generation, attempts, counter_call, response, heap, all_cookies, constructed, request, pc, population, generation,
                 result, error>>

\* generate_random_teams returns to find_best_teams
RandomReturn ==
  /\ pc = "generate_random_teams"
  /\ generated = RandomCount
  /\ request.method = "random"
  /\ pc' = "find_best_teams"
  /\ UNCHANGED <<next_generation, attempts, counter_call, response, heap, all_cookies, constructed, request, teams, generated, population,
                 generation, result, error>>

\* generate_random_teams returns the initial population to _generate_genetic_teams
GeneticStart ==
  /\ pc = "generate_random_teams"
  /\ generated = RandomCount
  /\ request.method = "genetic"
  /\ population' = teams
  /\ teams' = <<>>
  /\ pc' = "genetic"
  /\ UNCHANGED <<next_generation, attempts, counter_call, response, heap, all_cookies, constructed, request, generated, generation,
                 result, error>>

\* how many teams _generate_greedy_teams was asked for: find_best_teams asks
\* for n * 10
GreedyCount == IF request.method = "greedy" THEN request.n * 10 ELSE request.n

\* One iteration of _generate_greedy_teams' loop.  random.choice raises IndexError on an empty list.  `teams`
\* records a candidate list at its first generation only: a later Team of the
\* same list has the same attributes, and it is the first of equal Teams that
\* list(set(teams)) keeps.
GreedyIteration ==
  /\ pc = "greedy"
  /\ generated < GreedyCount
  /\ IF /\ slots_to_fill(RequiredObjects(request.required_cookies)) > 0
        /\ available_sorted(RequiredObjects(request.required_cookies)) = <<>>
       THEN /\ pc' = "raised"
            /\ error' = "IndexError"
            /\ UNCHANGED <<teams, generated>>
       ELSE /\ \E team_cookies \in
                   GreedySelections(RequiredObjects(request.required_cookies),
                                    available_sorted(RequiredObjects(request.required_cookies))) :
                 teams' = IF /\ Len(team_cookies) = 5
                             /\ \A i \in DOMAIN teams : teams[i].cookies # team_cookies
                            THEN TryAppend(teams, team_cookies)
                            ELSE teams
            /\ generated' = generated + 1
            /\ UNCHANGED <<pc, error>>
  /\ UNCHANGED <<next_generation, attempts, counter_call, response, heap, all_cookies, constructed, request, population, generation, result>>

\* _generate_greedy_teams returns to find_best_teams
GreedyReturn ==
  /\ pc = "greedy"
  /\ generated = GreedyCount
  /\ request.method = "greedy"
  /\ pc' = "find_best_teams"
  /\ UNCHANGED <<next_generation, attempts, counter_call, response, heap, all_cookies, constructed, request, teams, generated, population,
                 generation, result, error>>

\* _generate_exhaustive_teams up to its loop, with no question asked
ExhaustiveStart_without_gate ==
  /\ pc = "exhaustive"
  /\ IF slots_to_fill(RequiredObjects(request.required_cookies)) < 0
       THEN pc' = "raised" /\ error' = "ValueError"
       ELSE pc' = "combinations" /\ error' = error
  /\ UNCHANGED <<next_generation, attempts, counter_call, response, heap, all_cookies, constructed, request, teams, generated,
                 population, generation, result>>

\* _generate_exhaustive_teams up to the question or, when none is asked, up to
\* its loop: comb raises ValueError for a negative slots_to_fill
ExhaustiveStart ==
  /\ pc = "exhaustive"
  /\ IF slots_to_fill(RequiredObjects(request.required_cookies)) < 0
       THEN pc' = "raised" /\ error' = "ValueError"
       ELSE /\ pc' = IF total_combos(RequiredObjects(request.required_cookies)) > SAFETY_THRESHOLD
                       THEN "input" ELSE "combinations"
            /\ error' = error
  /\ UNCHANGED <<next_generation, attempts, counter_call, response, heap, all_cookies, constructed, request, teams, generated,
                 population, generation, result>>

\* response = input("Continue? (yes/no): "), answered
ExhaustiveInput(answer) ==
  /\ pc = "input"
  /\ response' = answer
  /\ pc' = IF lower(answer) # "yes" THEN "find_best_teams" ELSE "combinations"
  /\ UNCHANGED <<next_generation, attempts, counter_call, heap, all_cookies, constructed, request, teams, generated,
                 population,
                 generation, result, error>>

\* input() raises EOFError, which nothing catches
ExhaustiveInputClosed ==
  /\ pc = "input"
  /\ pc' = "raised"
  /\ error' = "EOFError"
  /\ UNCHANGED <<next_generation, attempts, counter_call, response, heap, all_cookies, constructed, request, teams, generated,
                 population, generation, result>>

\* one iteration of "for combo in combinations(available, slots_to_fill)"
ExhaustiveIteration ==
  /\ pc = "combinations"
  /\ generated < total_combos(RequiredObjects(request.required_cookies))
  /\ generated < MaxEnumerated
  /\ teams' =
       TryAppend(teams,
                 RequiredObjects(request.required_cookies)
                   \o combinations(
                        exhaustive_available(RequiredObjects(request.required_cookies)),
                        slots_to_fill(RequiredObjects(request.required_cookies)),
                        generated))
  /\ generated' = generated + 1
  /\ UNCHANGED <<next_generation, attempts, counter_call, response, heap, all_cookies, constructed, request, pc, population,
                 generation, result, error>>

\* the combinations are exhausted: return teams
ExhaustiveReturn ==
  /\ pc = "combinations"
  /\ generated = total_combos(RequiredObjects(request.required_cookies))
  /\ pc' = "find_best_teams"
  /\ UNCHANGED <<next_generation, attempts, counter_call, response, heap, all_cookies, constructed, request, teams, generated,
                 population, generation, result, error>>

\* next_generation for the elites of the sorted population
NextGenerations(elites) ==
  {elites \o children :
     children \in [1..ChildrenNeeded(request.population_size, elites) ->
                     Children(elites, request.required_cookies)]}

\* one generation of _generate_genetic_teams
GeneticGeneration ==
  /\ pc = "genetic"
  /\ generation < request.num_candidates
  /\ \E bred \in
          NextGenerations(Take(SortTeams(population), elite_count(request.population_size))) :
       population' = bred
  /\ generation' = generation + 1
  /\ UNCHANGED <<next_generation, attempts, counter_call, response, heap, all_cookies, constructed, request, pc, teams, generated, result, error>>

\* _generate_genetic_teams returns the population to find_best_teams
GeneticReturn ==
  /\ pc = "genetic"
  /\ generation = request.num_candidates
  /\ teams' = population
  /\ pc' = "find_best_teams"
  /\ UNCHANGED <<next_generation, attempts, counter_call, response, heap, all_cookies, constructed, request, generated, population,
                 generation, result, error>>

\* list(set(teams)): of equal Teams the set keeps the one inserted first; the
\* order in which the list holds them is decided by the hashes and is any order
FirstOfEqual(ts) == {i \in DOMAIN ts : \A j \in 1..(i - 1) : ~Team_eq(ts[j], ts[i])}
UniqueTeamLists(ts) ==
  {[p \in 1..Cardinality(FirstOfEqual(ts)) |-> ts[f[p]]] :
     f \in {g \in [1..Cardinality(FirstOfEqual(ts)) -> FirstOfEqual(ts)] :
              \A p, q \in DOMAIN g : p # q => g[p] # g[q]}}

\* the end of find_best_teams: deduplicate, sort, return the first n
FindBestReturn ==
  /\ pc = "find_best_teams"
  /\ \E unique_teams \in UniqueTeamLists(teams) :
       result' = Take(SortTeams(unique_teams), request.n)
  /\ pc' = "done"
  /\ UNCHANGED <<next_generation, attempts, counter_call, response, heap, all_cookies, constructed, request, teams, generated, population,
                 generation, error>>

Next ==
  \/ \E call \in Calls : find_best_teams(call)
  \/ RandomIteration
  \/ RandomReturn
  \/ GeneticStart
  \/ GreedyIteration
  \/ GreedyReturn
  \/ ExhaustiveStart
  \/ \E answer \in Responses : ExhaustiveInput(answer)
  \/ ExhaustiveInputClosed
  \/ ExhaustiveIteration
  \/ ExhaustiveReturn
  \/ GeneticGeneration
  \/ GeneticReturn
  \/ FindBestReturn

Spec == Init /\ [][Next]_vars

\* C3: Teams built from the same five cookies in any order, with the same
\* treasures and options, have the same composition_score.
C3_ScoreIndependentOfOrder ==
  \A t1, t2 \in ConstructedTeams :
    (/\ Len(t1.cookies) = 5
     /\ Range(t1.cookies) = Range(t2.cookies)
     /\ t1.treasures = t2.treasures
     /\ t1.include_synergy = t2.include_synergy)
    => t1.composition_score = t2.composition_score


(***************************************************************************)
(* Properties of the search                                                *)
(***************************************************************************)
\* the names of the cookies in the pool
PoolNames == NamesOf(all_cookies)
\* the call has returned a list to its caller
Returned == pc = "done"

\* C4: every Team returned by find_best_teams contains every cookie named in
\* required_cookies, whatever the strategy.
C4_ReturnedTeamsHoldRequired ==
  Returned =>
    \A k \in DOMAIN result :
      \A i \in DOMAIN request.required_cookies :
        request.required_cookies[i] \in NamesOf(result[k].cookies)

\* C5: a call whose required_cookies has more than 5 names, or a name that no
\* cookie of the pool carries, raises an error and never returns a list.
C5_BadRequirementRaises ==
  Returned =>
    /\ Len(request.required_cookies) <= 5
    /\ \A i \in DOMAIN request.required_cookies : request.required_cookies[i] \in PoolNames

\* the genetic strategy is between two generations, or has returned its population
BetweenGenerations ==
  /\ pc \in {"genetic", "find_best_teams", "done"}
  /\ request.method = "genetic"

\* C6: in the genetic search the population has exactly population_size teams
\* at the start and after every generation.
C6_PopulationSizeConstant ==
  BetweenGenerations => Len(population) = request.population_size

\* a generation has bred a child into a population larger than its elites
C6_Witness ==
  /\ pc = "genetic"
  /\ generation >= 1
  /\ Len(population) > elite_count(request.population_size)
  /\ \A i \in 1..elite_count(request.population_size) :
       population[Len(population)].cookies # population[i].cookies

\* the highest composition_score of a non-empty list of Teams
MaxScore(ts) ==
  ts[CHOOSE i \in DOMAIN ts :
       \A j \in DOMAIN ts : ~FGt(ts[j].composition_score, ts[i].composition_score)]
    .composition_score

\* C7: the highest composition_score of the population never decreases from
\* one generation to the next.
C7_BestScoreNeverDecreases ==
  [][(pc = "genetic" /\ generation' = generation + 1)
       => ~FGt(MaxScore(population), MaxScore(population'))]_vars

\* a generation has bred a child that scores above every elite it was bred from
C7_Witness ==
  /\ pc = "genetic"
  /\ generation >= 1
  /\ Len(population) > elite_count(request.population_size)
  /\ \A i \in 1..elite_count(request.population_size) :
       FGt(population[Len(population)].composition_score, population[i].composition_score)

\* the binomial coefficient C(n, k), as the product of (n - k + i) / i for i in 1..k
Binomial(n, k) ==
  IF k < 0 \/ k > n THEN 0
  ELSE LET upto[i \in 0..k] == IF i = 0 THEN 1 ELSE (upto[i - 1] * (n - k + i)) \div i
       IN upto[k]

\* the exhaustive strategy has returned its candidates for r <= 5 required
\* names that are all in the pool, having had no need to ask whether to continue
ExhaustiveCandidates ==
  /\ pc = "find_best_teams"
  /\ request.method = "exhaustive"
  /\ response = None
  /\ Len(request.required_cookies) <= 5
  /\ Range(request.required_cookies) \subseteq PoolNames

\* C8: exhaustive search with r required cookies, all in a pool of P cookies,
\* generates exactly C(P - r, 5 - r) candidate Teams: for every (5 - r)-subset
\* of the other cookies one Team, made of the required cookies and the subset.
C8_ExhaustiveCount ==
  ExhaustiveCandidates =>
    /\ Len(teams) = Binomial(Len(all_cookies) - Len(request.required_cookies),
                             5 - Len(request.required_cookies))
    /\ \A S \in SUBSET {c \in Range(all_cookies) : ~NameIn(c, request.required_cookies)} :
         Cardinality(S) = 5 - Len(request.required_cookies) =>
           Cardinality({k \in DOMAIN teams :
                          Range(teams[k].cookies) =
                            S \cup {c \in Range(all_cookies) :
                                      NameIn(c, request.required_cookies)}}) = 1

\* exhaustive search with 3 required cookies over a pool of 6 has generated 3 Teams
C8_Witness ==
  /\ ExhaustiveCandidates
  /\ Len(request.required_cookies) = 3
  /\ Len(all_cookies) = 6
  /\ Len(teams) = 3

\* C9: the list find_best_teams returns has at most n Teams, no two of them
\* with the same set of cookie names, in order of non-increasing
\* composition_score, and no generated candidate that is missing from it
\* scores strictly above a returned Team.
C9_ResultIsTopN ==
  Returned =>
    /\ Len(result) <= request.n
    /\ \A i, j \in DOMAIN result :
         i < j => /\ ~Team_eq(result[i], result[j])
                  /\ ~FGt(result[j].composition_score, result[i].composition_score)
    /\ \A c \in DOMAIN teams :
         (\A k \in DOMAIN result : ~Team_eq(teams[c], result[k]))
           => \A k \in DOMAIN result :
                ~FGt(teams[c].composition_score, result[k].composition_score)

\* the required names are at most 5 and all in the pool, and the pool has
\* fewer other cookies than the team has open slots
InsufficientPool ==
  /\ pc # "idle"
  /\ Len(request.required_cookies) <= 5
  /\ Range(request.required_cookies) \subseteq PoolNames
  /\ Cardinality({c \in Range(all_cookies) : ~NameIn(c, request.required_cookies)})
       < 5 - Len(request.required_cookies)

\* C10: a call the pool cannot satisfy never returns a list; it raises a
\* configuration error (ValueError) before any candidate is generated.
C10_InsufficientPoolRaises ==
  InsufficientPool =>
    /\ ~Returned
    /\ pc = "raised" => error = "ValueError" /\ teams = <<>> /\ generated = 0

\* the number of combinations the running exhaustive search computed
ExhaustiveCount ==
  Binomial(Len(all_cookies) - Len(RequiredObjects(request.required_cookies)),
           5 - Len(RequiredObjects(request.required_cookies)))
\* the user answered the question with a yes
Confirmed == response \in {"yes", "Yes", "YES"}
\* the exhaustive search is past its estimate of the number of combinations
ExhaustiveRunning ==
  /\ pc \notin {"idle", "exhaustive"}
  /\ request.method = "exhaustive"
  /\ Len(RequiredObjects(request.required_cookies)) <= 5

\* C11: when the exhaustive search counts more than 1,000,000 combinations it
\* enumerates and constructs no Team unless the answer to its question is a
\* yes, and otherwise ends with no teams; when it counts at most 1,000,000 it
\* asks nothing and enumerates them.
C11_ConfirmationGate ==
  ExhaustiveRunning =>
    IF ExhaustiveCount > 1000000
      THEN \/ Confirmed
           \/ /\ teams = <<>> /\ generated = 0 /\ result = <<>>
              /\ pc \in {"input", "find_best_teams", "done", "raised"}
      ELSE /\ response = None
           /\ pc \in {"combinations", "find_best_teams", "done"}
           /\ pc \in {"find_best_teams", "done"} => generated = ExhaustiveCount

\* a search of more than 1,000,000 combinations was answered "no" and returned no teams
C11_Witness ==
  /\ ExhaustiveRunning
  /\ ExhaustiveCount > 1000000
  /\ response = "no"
  /\ pc = "done"
  /\ result = <<>>


(***************************************************************************)
(* TeamOptimizer.update_cookie_stats and the specification SpecStats: the  *)
(* progression stats of the pool's cookies are updated, before and after   *)
(* a Team is constructed.                                                  *)
(***************************************************************************)
\* stats.get(key)
Get(stats, key) == IF key \in DOMAIN stats THEN <<stats[key]>> ELSE NoNum

\* the three assignments, made to every cookie whether it is named or not
UpdatedCookie_named_or_not(cookie, cookie_stats) ==
  IF cookie.name \in DOMAIN cookie_stats
    THEN [cookie EXCEPT !.cookie_level = Get(cookie_stats[cookie.name], "cookie_level"),
                        !.skill_level = Get(cookie_stats[cookie.name], "skill_level"),
                        !.topping_quality = Get(cookie_stats[cookie.name], "topping_quality")]
    ELSE [cookie EXCEPT !.cookie_level = NoNum, !.skill_level = NoNum,
                        !.topping_quality = NoNum]

\* the body of the loop of update_cookie_stats, for one cookie of the pool
UpdatedCookie(cookie, cookie_stats) ==
  IF cookie.name \in DOMAIN cookie_stats
    THEN [cookie EXCEPT !.cookie_level = Get(cookie_stats[cookie.name], "cookie_level"),
                        !.skill_level = Get(cookie_stats[cookie.name], "skill_level"),
                        !.topping_quality = Get(cookie_stats[cookie.name], "topping_quality")]
    ELSE cookie

\* the Cookie objects after "for cookie in self.all_cookies: ..."
UpdatedHeap(cookie_stats) ==
  [c \in DOMAIN heap |->
     IF c \in Range(all_cookies) THEN UpdatedCookie(heap[c], cookie_stats) ELSE heap[c]]

\* an update that also computes the scores of the constructed Teams anew
update_cookie_stats_rescoring(cookie_stats) ==
  /\ request' = [method |-> "update_cookie_stats", cookie_stats |-> cookie_stats]
  /\ heap' = UpdatedHeap(cookie_stats)
  /\ constructed' =
       [k \in DOMAIN constructed |->
          IF constructed[k].raised THEN constructed[k]
          ELSE [constructed[k] EXCEPT !.self.composition_score =
                  calculate_score(
                    [i \in DOMAIN constructed[k].self.cookies |->
                       UpdatedHeap(cookie_stats)[constructed[k].self.cookies[i]]],
                    DerefTreasures(constructed[k].self.treasures),
                    constructed[k].self.include_synergy,
                    constructed[k].self.synergy_breakdown)]]
  /\ UNCHANGED <<next_generation, attempts, counter_call, response, all_cookies, pc, teams, generated, population, generation,
                 result, error>>

\* TeamOptimizer.update_cookie_stats(cookie_stats)
update_cookie_stats(cookie_stats) ==
  /\ request' = [method |-> "update_cookie_stats", cookie_stats |-> cookie_stats]
  /\ heap' = UpdatedHeap(cookie_stats)
  /\ UNCHANGED <<next_generation, attempts, counter_call, response, all_cookies, constructed, pc, teams, generated, population,
                 generation, result, error>>

\* The stats dictionaries: all three stats, a skill level with a cookie level
\* of 0, a topping quality alone, and the empty dictionary.
StatsChoices ==
  {[cookie_level |-> FInt(70), skill_level |-> FInt(60), topping_quality |-> F5],
   [cookie_level |-> FZero, skill_level |-> FInt(30)],
   [topping_quality |-> F2_5],
   <<>>}

\* The mappings passed: they name one cookie of the pool, two, a cookie that
\* does not exist, or none.
CookieStatsChoices ==
  UNION {[names -> StatsChoices] : names \in {{"A"}, {"A", "E"}, {MISSING_NAME}, {}}}

NextStats ==
  \/ \E cookie_stats \in CookieStatsChoices : update_cookie_stats(cookie_stats)
  \/ \E include_synergy \in BOOLEAN : NewTeam(BaseTeam, <<>>, include_synergy, TRUE)

SpecStats == InitTeam /\ [][NextStats]_vars

\* C12: an update of the cookies' stats leaves the composition_score and the
\* synergy_breakdown stored in every constructed Team as they were, so they
\* stay the values computed at construction.
C12_ScoresFixedAtConstruction ==
  [][heap' # heap =>
       /\ DOMAIN constructed' = DOMAIN constructed
       /\ \A k \in DOMAIN constructed :
            ~constructed[k].raised =>
              /\ constructed'[k].self.composition_score
                   = constructed[k].self.composition_score
              /\ constructed'[k].self.synergy_breakdown
                   = constructed[k].self.synergy_breakdown]_vars

\* a Team whose stored score is no longer the score its cookies have now
C12_Witness ==
  /\ constructed # <<>>
  /\ ~constructed[1].raised
  /\ heap # CookieObjects
  /\ constructed[1].self.composition_score
       # TeamInit(constructed[1].self.cookies, constructed[1].self.treasures,
                  constructed[1].self.include_synergy,
                  constructed[1].self.strict_validation).self.composition_score

\* the three progression stats of a cookie
Stats(cookie) == <<cookie.cookie_level, cookie.skill_level, cookie.topping_quality>>

\* C13: update_cookie_stats changes nothing but cookie_level, skill_level and
\* topping_quality of the pool's cookies whose name is a key of the mapping;
\* the pool keeps its members and their order.
C13_UpdateChangesNamedStatsOnly ==
  [][heap' # heap =>
       /\ all_cookies' = all_cookies
       /\ DOMAIN heap' = DOMAIN heap
       /\ \A c \in DOMAIN heap :
            /\ [heap'[c] EXCEPT !.cookie_level = heap[c].cookie_level,
                                !.skill_level = heap[c].skill_level,
                                !.topping_quality = heap[c].topping_quality] = heap[c]
            /\ Stats(heap'[c]) # Stats(heap[c]) =>
                 /\ c \in Range(all_cookies)
                 /\ heap[c].name \in DOMAIN request'.cookie_stats]_vars

\* a mapping that names A alone has been applied, and A's stats are set while
\* those of the other cookies are not
C13_Witness ==
  /\ heap[1].skill_level # NoNum
  /\ DOMAIN request.cookie_stats = {"A"}
  /\ \A c \in DOMAIN heap : c # 1 => Stats(heap[c]) = <<NoNum, NoNum, NoNum>>


(***************************************************************************)
(* The specification SpecCookie: two Cookie objects are constructed and    *)
(* Cookie.get_power_score or SynergyCalculator.calculate_cookie_synergy is *)
(* called on them.                                                         *)
(***************************************************************************)
\* Cookie.__init__ with progression stats
CookieWithStats(cookie, cookie_level, skill_level, topping_quality) ==
  [cookie EXCEPT !.cookie_level = cookie_level, !.skill_level = skill_level,
                 !.topping_quality = topping_quality]

\* the rarities of RARITY_WEIGHTS, and one it does not list
Rarities ==
  {"Beast", "Ancient (Ascended)", "Ancient", "Legendary", "Dragon", "Super Epic",
   "Epic", "Special", "Rare", "Common", "Mythic"}

\* The first cookie has any rarity and progression stats that are absent or
\* inside their documented ranges (levels from 1, topping quality from 0).
InitCookie ==
  /\ \E rarity \in Rarities,
        cookie_level \in {NoNum, <<FInt(70)>>},
        skill_level \in {NoNum, <<FInt(60)>>, <<FInt(30)>>},
        topping_quality \in {NoNum, <<FZero>>, <<F2_5>>, <<F5>>},
        element1 \in {None, "N/A", "Fire"}, element2 \in {None, "Fire", "Water"} :
       heap = << CookieWithStats(Cookie("A", rarity, "Magic", "Front", element1),
                                 cookie_level, skill_level, topping_quality),
                 Cookie("B", "Epic", "Magic", "Front", element2) >>
  /\ all_cookies = <<1, 2>>
  /\ constructed = <<>>
  /\ Idle

\* cookie.get_power_score()
GetPowerScore(self) ==
  /\ pc = "idle"
  /\ request' = [method |-> "get_power_score", self |-> self]
  /\ result' = get_power_score(heap[self])
  /\ pc' = "done"
  /\ UNCHANGED <<next_generation, attempts, counter_call, response, heap, all_cookies, constructed, teams, generated, population,
                 generation, error>>

\* SynergyCalculator().calculate_cookie_synergy(cookie1, cookie2)
CookieSynergy(cookie1, cookie2) ==
  /\ pc = "idle"
  /\ request' = [method |-> "calculate_cookie_synergy", cookie1 |-> cookie1,
                 cookie2 |-> cookie2]
  /\ result' = calculate_cookie_synergy(heap[cookie1], heap[cookie2])
  /\ pc' = "done"
  /\ UNCHANGED <<next_generation, attempts, counter_call, response, heap, all_cookies, constructed, teams, generated, population,
                 generation, error>>

NextCookie ==
  \/ \E self \in DOMAIN heap : GetPowerScore(self)
  \/ \E cookie1, cookie2 \in DOMAIN heap : CookieSynergy(cookie1, cookie2)

SpecCookie == InitCookie /\ [][NextCookie]_vars

\* get_power_score has returned
PowerScored == pc = "done" /\ request.method = "get_power_score"
\* no progression stat of the cookie is set
NoStats(cookie) == Stats(cookie) = <<NoNum, NoNum, NoNum>>
\* the two floats differ by less than 2^-30
Close(a, b) ==
  FLt(FSub(a, b), [neg |-> FALSE, m |-> <<0, 0, 0, 1024>>, e |-> -82])
    /\ FLt(FSub(b, a), [neg |-> FALSE, m |-> <<0, 0, 0, 1024>>, e |-> -82])
\* the rarity table
TableWeight(rarity) ==
  CASE rarity = "Beast" -> F7
    [] rarity = "Ancient (Ascended)" -> F6_5
    [] rarity = "Ancient" -> F6
    [] rarity = "Legendary" -> F5
    [] rarity = "Dragon" -> F5
    [] rarity = "Super Epic" -> F4
    [] rarity = "Epic" -> F3
    [] rarity = "Special" -> F2
    [] rarity = "Rare" -> F1
    [] rarity = "Common" -> F0_5
\* share * 7 * (stat / full), or 0 for an absent stat
Term(share, stat, full) ==
  IF stat = NoNum THEN FZero ELSE FMul(FMul(share, F7), FDivInt(stat[1], full))
\* 0.40*weight + 0.35*7*(skill/60) + 0.15*7*(level/70) + 0.10*7*(topping/5)
AdvancedFormula(cookie) ==
  FAdd(FAdd(FAdd(FMul(F0_4, TableWeight(cookie.rarity)),
                 Term(F0_35, cookie.skill_level, 60)),
            Term(F0_15, cookie.cookie_level, 70)),
       Term(F0_1, cookie.topping_quality, 5))

\* C14: with no progression stat set get_power_score returns exactly the
\* table weight of the rarity; with cookie_level, skill_level and
\* topping_quality set it returns 0.40*weight + 0.35*7*(skill/60) +
\* 0.15*7*(level/70) + 0.10*7*(topping/5), which for a Beast cookie of level
\* 70, skill 60 and topping 5.0 is exactly 7.0.
C14_PowerScoreFormula ==
  (PowerScored /\ heap[request.self].rarity # "Mythic") =>
    /\ NoStats(heap[request.self]) => result = TableWeight(heap[request.self].rarity)
    /\ (\A i \in 1..3 : Stats(heap[request.self])[i] # NoNum) =>
         Close(result, AdvancedFormula(heap[request.self]))
    /\ (/\ heap[request.self].rarity = "Beast"
        /\ Stats(heap[request.self]) = << <<FInt(70)>>, <<FInt(60)>>, <<F5>> >>)
         => result = F7

\* the power of a Beast cookie of level 70, skill 60 and topping 5.0 has been computed
C14_Witness ==
  /\ PowerScored
  /\ heap[request.self].rarity = "Beast"
  /\ Stats(heap[request.self]) = << <<FInt(70)>>, <<FInt(60)>>, <<F5>> >>

\* C15: get_power_score uses the advanced formula whenever one of
\* cookie_level, skill_level and topping_quality is set, whatever its value,
\* with 0 for the term of an absent stat, and the rarity weight only when
\* none is set.
C15_ModeByPresence ==
  (PowerScored /\ heap[request.self].rarity # "Mythic") =>
    IF NoStats(heap[request.self])
      THEN result = TableWeight(heap[request.self].rarity)
      ELSE Close(result, AdvancedFormula(heap[request.self]))

\* calculate_cookie_synergy has returned
SynergyScored == pc = "done" /\ request.method = "calculate_cookie_synergy"
\* +2.0 for two equal elements, +0.3 for two different ones, 0 when an element is missing
ElementalTerm(cookie1, cookie2) ==
  IF cookie1.element = None \/ cookie2.element = None THEN FZero
  ELSE IF cookie1.element = cookie2.element THEN F2 ELSE F0_3

\* C20: the elemental term of the pairwise synergy is +2.0 for two cookies of
\* the same element, +0.3 for two cookies of different elements and 0 when
\* one of them, or both, have no element.  (The cookies of this
\* specification have the role Magic, the position Front and no abilities:
\* the other terms are 0.6 * 4.0 and 0.5.)
C20_ElementalTerm ==
  SynergyScored =>
    result = FAdd(FAdd(FAdd(FZero, FMul(F0_6, F4)), F0_5),
                  ElementalTerm(heap[request.cookie1], heap[request.cookie2]))


(***************************************************************************)
(* The specification SpecScore: five Cookie objects of varied roles,       *)
(* positions, elements, rarities and abilities are constructed, and a Team *)
(* of them, or of the first three.                                         *)
(***************************************************************************)
\* the roles of the five cookies when they have n distinct roles
RolesOf(n) ==
  [i \in 1..5 |-> <<"Defense", "Healing", "Support", "Magic", "Ranged">>[Min(i, n)]]

\* one position, two, three in a 2-2-1 split, three in a 1-3-1 split
PositionPatterns ==
  {<<"Front", "Front", "Front", "Front", "Front">>,
   <<"Front", "Front", "Front", "Middle", "Middle">>,
   <<"Front", "Front", "Middle", "Middle", "Rear">>,
   <<"Front", "Middle", "Middle", "Middle", "Rear">>}

\* no element, one element for 5, 4, 3 or 2 cookies, five different elements
ElementPatterns ==
  {<<None, None, None, None, None>>,
   <<"Light", "Light", "Light", "Light", "Light">>,
   <<"Light", "Light", "Light", "Light", None>>,
   <<"Light", "Light", "Light", "Fire", "N/A">>,
   <<"Light", "Light", "Fire", "Water", "Earth">>,
   <<"Light", "Fire", "Water", "Earth", "Dark">>}

\* how many of the five cookies are Beast cookies (the others are Epic)
BeastCounts == {0, 3, 4, 5}

\* Cookie.__init__ with ability attributes
CookieWithAbilities(cookie, crowd_control, grants_immunity, skill_type, provides_healing, provides_shield, dispel, anti_tank) ==
  [cookie EXCEPT !.crowd_control = IF crowd_control # "None" THEN crowd_control ELSE None,
                 !.grants_immunity = IF grants_immunity # "None" THEN grants_immunity ELSE None,
                 !.skill_type = skill_type,
                 !.provides_healing = provides_healing,
                 !.provides_shield = provides_shield,
                 !.dispel = dispel,
                 !.anti_tank = anti_tank]

\* the i-th cookie with abilities: the first controls, grants immunity and
\* heals, the second deals damage, shields and dispels, the others are anti-tank
Able(cookie, i) ==
  IF i = 1 THEN CookieWithAbilities(cookie, "Stun", "All_Debuffs", None, TRUE, FALSE, FALSE, FALSE)
  ELSE IF i = 2 THEN CookieWithAbilities(cookie, "None", "None", "Damage", FALSE, TRUE, TRUE, TRUE)
  ELSE CookieWithAbilities(cookie, "None", "None", None, FALSE, FALSE, FALSE, TRUE)

InitScore ==
  /\ \E roles \in 1..5, positions \in PositionPatterns, elements \in ElementPatterns,
        beasts \in BeastCounts, abilities \in BOOLEAN :
       heap = [i \in 1..5 |->
                 IF abilities
                   THEN Able(Cookie(CookieObjects[i].name,
                                    IF i <= beasts THEN "Beast" ELSE "Epic",
                                    RolesOf(roles)[i], positions[i], elements[i]), i)
                   ELSE Cookie(CookieObjects[i].name,
                               IF i <= beasts THEN "Beast" ELSE "Epic",
                               RolesOf(roles)[i], positions[i], elements[i])]
  /\ all_cookies = BaseTeam
  /\ constructed = <<>>
  /\ Idle

NextScore ==
  \E cookies \in {BaseTeam, SubSeq(BaseTeam, 1, 3)}, include_synergy \in BOOLEAN :
    NewTeam(cookies, <<>>, include_synergy, FALSE)

SpecScore == InitScore /\ [][NextScore]_vars

\* the Teams constructed without treasures and without the synergy bonus
PlainTeams == {t \in ConstructedTeams : ~t.include_synergy /\ t.treasures = <<>>}
\* the number of distinct roles, and of distinct positions, of a Team
DistinctRoles(t) == Cardinality({heap[t.cookies[i]].role : i \in DOMAIN t.cookies})
DistinctPositions(t) == Cardinality({heap[t.cookies[i]].position : i \in DOMAIN t.cookies})

\* C16: the Role Diversity component of a Team's score is 30, 24, 15, 8 or 0
\* for 5, 4, 3, 2 or 1 distinct roles: the composition_score of a Team
\* without treasures and synergy bonus is that number plus the three other
\* components.
C16_RoleDiversitySteps ==
  \A t \in PlainTeams :
    /\ DistinctRoles(t) \in 1..5
    /\ t.composition_score =
         FAdd(FAdd(FInt(<<0, 8, 15, 24, 30>>[DistinctRoles(t)]
                          + calculate_position_coverage_score(Deref(t.cookies))),
                   calculate_power_score(Deref(t.cookies))),
              calculate_bonus_modifiers(Deref(t.cookies)))

\* Teams of 1, 2, 3, 4 and 5 distinct roles exist: here is one of 5 without synergy bonus
C16_Witness == \E t \in PlainTeams : DistinctRoles(t) = 5

\* C17: the Position Coverage component of a Team's score is 25, 15 or 5 for
\* 3, 2 or 1 distinct positions: the composition_score of a Team without
\* treasures and synergy bonus is that number plus the three other components.
C17_PositionCoverageSteps ==
  \A t \in PlainTeams :
    /\ DistinctPositions(t) \in 1..3
    /\ t.composition_score =
         FAdd(FAdd(FInt(calculate_role_diversity_score(Deref(t.cookies))
                          + <<5, 15, 25>>[DistinctPositions(t)]),
                   calculate_power_score(Deref(t.cookies))),
              calculate_bonus_modifiers(Deref(t.cookies)))

\* a Team of five cookies in two positions, without synergy bonus
C17_Witness == \E t \in PlainTeams : Len(t.cookies) = 5 /\ DistinctPositions(t) = 2

\* the Teams constructed with the synergy bonus
SynergyTeams == {t \in ConstructedTeams : t.include_synergy}
\* lo <= x <= hi
Within(x, lo, hi) == ~FLt(x, FInt(lo)) /\ ~FGt(x, FInt(hi))

\* C18: the synergy bonus added to composition_score is between 0 and 20.
C18_SynergyBonusRange ==
  \A t \in SynergyTeams : Within(calculate_synergy_bonus(t.synergy_breakdown), 0, 20)

\* C19: in the synergy_breakdown of a Team of 5 the role, position, element,
\* type, coverage and ability scores are within 0-30, 0-20, 0-25, 0-15, 0-10
\* and 0-10, and total_score is their sum and at most 110.
C19_SubScoreCaps ==
  \A t \in SynergyTeams :
    Len(t.cookies) = 5 =>
      /\ Within(t.synergy_breakdown.role_synergy, 0, 30)
      /\ Within(t.synergy_breakdown.position_synergy, 0, 20)
      /\ Within(t.synergy_breakdown.element_synergy, 0, 25)
      /\ Within(t.synergy_breakdown.type_synergy, 0, 15)
      /\ Within(t.synergy_breakdown.coverage_synergy, 0, 10)
      /\ Within(t.synergy_breakdown.ability_synergy, 0, 10)
      /\ Within(t.synergy_breakdown.total_score, 0, 110)
      /\ t.synergy_breakdown.total_score =
           FAdd(FAdd(FAdd(FAdd(FAdd(t.synergy_breakdown.role_synergy,
                                    t.synergy_breakdown.position_synergy),
                               t.synergy_breakdown.element_synergy),
                          t.synergy_breakdown.type_synergy),
                     t.synergy_breakdown.coverage_synergy),
                t.synergy_breakdown.ability_synergy)

\* the elements of the cookies of a Team that have one
ElementsOf(t) == {heap[t.cookies[i]].element : i \in DOMAIN t.cookies} \ {None}
\* the Teams of 5 constructed with the synergy bonus
SynergyTeamsOf5 == {t \in SynergyTeams : Len(t.cookies) = 5}

\* C21: the element_synergy of a Team of 5 is exactly 25.0 when its five
\* cookies have the same element, and exactly 0.0 when none of them has an
\* element.
C21_ElementSynergyExtremes ==
  \A t \in SynergyTeamsOf5 :
    /\ (/\ Cardinality(ElementsOf(t)) = 1
        /\ \A i \in DOMAIN t.cookies : heap[t.cookies[i]].element # None)
         => t.synergy_breakdown.element_synergy = F25
    /\ ElementsOf(t) = {} => t.synergy_breakdown.element_synergy = FZero

\* a Team of 5 cookies without elements, and the synergy_breakdown of it
C21_Witness == \E t \in SynergyTeamsOf5 : ElementsOf(t) = {}

(***************************************************************************)
(* The specification SpecCombo: Teams of the cookies that the named combos *)
(* speak of, and of two other cookies, and their special_combo_score.      *)
(***************************************************************************)
ComboCookieNames ==
  <<"Mercurial Knight Cookie", "Silverbell Cookie", "Lemon Cookie", "Orange Cookie",
    "Golden Cheese Cookie", "Burnt Cheese Cookie", "Choco Drizzle Cookie",
    "Green Tea Mousse Cookie", "Pudding a la Mode Cookie", "Shadow Milk Cookie",
    "Black Sapphire Cookie", "Candy Apple Cookie", "A", "B">>

InitCombo ==
  /\ heap = [i \in DOMAIN ComboCookieNames |->
               Cookie(ComboCookieNames[i], "Epic", "Magic", "Middle", None)]
  /\ all_cookies = [i \in DOMAIN ComboCookieNames |-> i]
  /\ constructed = <<>>
  /\ Idle

\* team.special_combo_score
SpecialComboScore(self) ==
  /\ pc = "idle"
  /\ ~constructed[self].raised
  /\ request' = [method |-> "special_combo_score", self |-> self]
  /\ result' = special_combo_score(constructed[self].self)
  /\ pc' = "done"
  /\ UNCHANGED <<next_generation, attempts, counter_call, response, heap, all_cookies, constructed, teams, generated, population,
                 generation, error>>

\* Teams of five cookies, and (without strict validation) of one and of two
NextCombo ==
  \/ \E a \in DOMAIN heap : \E b \in (a + 1)..Len(heap) : \E c \in (b + 1)..Len(heap) :
       \E d \in (c + 1)..Len(heap) : \E e \in (d + 1)..Len(heap) :
         NewTeam(<<a, b, c, d, e>>, <<>>, FALSE, TRUE)
  \/ \E a \in DOMAIN heap : \E b \in a..Len(heap) :
       NewTeam(IF a = b THEN <<a>> ELSE <<a, b>>, <<>>, FALSE, FALSE)
  \/ \E self \in DOMAIN constructed : SpecialComboScore(self)

SpecCombo == InitCombo /\ [][NextCombo]_vars

\* special_combo_score has returned
ComboScored == pc = "done" /\ request.method = "special_combo_score"
\* the names of the Team whose special_combo_score was asked for
ComboTeamNames == get_cookie_signature(constructed[request.self].self)
\* the bonuses of the combos whose conditions the Team meets
QualifyingBonuses ==
  {combo_bonuses[k].bonus :
     k \in {j \in DOMAIN combo_bonuses : combo_activated(combo_bonuses[j], ComboTeamNames)}}

\* C22: with Mercurial Knight Cookie and Silverbell Cookie both in the Team
\* special_combo_score is 25.0, whoever the other members are; without one
\* of them Silver Knighthood adds nothing: the score is the largest bonus of
\* the other combos that qualify, or 0.0; it is never the sum of several bonuses.
C22_SilverKnighthood ==
  ComboScored =>
    /\ {"Mercurial Knight Cookie", "Silverbell Cookie"} \subseteq ComboTeamNames
         => result = F25
    /\ ~({"Mercurial Knight Cookie", "Silverbell Cookie"} \subseteq ComboTeamNames)
         => result = special_combo_score(
                       [cookies |-> SelectSeq(constructed[request.self].self.cookies,
                                              LAMBDA c : heap[c].name \notin
                                                {"Mercurial Knight Cookie", "Silverbell Cookie"})])
    /\ IF QualifyingBonuses = {} THEN result = FZero
       ELSE /\ result \in QualifyingBonuses
            /\ \A bonus \in QualifyingBonuses : ~FGt(bonus, result)

\* the score of a Team with both knights, Lemon Cookie and Orange Cookie
\* (Silver Knighthood and Citrus Party qualify) has been computed
C22_Witness ==
  /\ ComboScored
  /\ {"Mercurial Knight Cookie", "Silverbell Cookie", "Lemon Cookie", "Orange Cookie"}
       \subseteq ComboTeamNames

(***************************************************************************)
(* CounterTeamGenerator.  An enemy team is the list of the Cookie objects  *)
(* of the enemy Team; generator.all_cookies is the list the optimizer had  *)
(* when the generator was made.  The texts of a result (strategy           *)
(* description, weaknesses, priority targets, recommended treasures) are   *)
(* left out: no score and no pool depends on them.                         *)
(***************************************************************************)
TAUNT_TANKS ==
  {"Elder Faerie Cookie", "Wildberry Cookie", "Dark Cacao Cookie", "Milk Cookie",
   "Knight Cookie"}
BURST_DAMAGE_COOKIES ==
  {"Burning Spice Cookie", "Tarte Tatin Cookie", "Wind Archer Cookie", "Black Pearl Cookie"}
HIGH_HP_TANKS ==
  <<"Millennial Tree Cookie", "Hollyberry Cookie", "Dark Cacao Cookie", "Elder Faerie Cookie">>
\* "if len(counter_cookies) < 20"
COUNTER_POOL_SIZE == 20
\* num_candidates of the find_best_teams call made by find_counter_teams:
\* the default, 1000, in the source
COUNTER_NUM_CANDIDATES == 2

\* how many cookies of the list satisfy P
CountWhere(cs, P(_)) == Cardinality({i \in DOMAIN cs : P(cs[i])})

\* analyze_enemy_team: the entries of analysis that are read for scores and pools
analyze_enemy_team(enemy) ==
  [healers |-> CountWhere(enemy, LAMBDA c : c.role \in {"Healing", "Support"}
                                             \/ c.provides_healing),
   tanks |-> CountWhere(enemy, LAMBDA c : c.role \in {"Defense", "Charge"}),
   front_position |-> CountWhere(enemy, LAMBDA c : c.position = "Front"),
   rear_position |-> CountWhere(enemy, LAMBDA c : c.position = "Rear"),
   crowd_control |-> CountWhere(enemy, HasCC),
   immunity |-> \E i \in DOMAIN enemy : HasImmunity(enemy[i]),
   cleanse |-> \E i \in DOMAIN enemy : enemy[i].dispel,
   has_shadow_milk |-> \E i \in DOMAIN enemy : enemy[i].name = "Shadow Milk Cookie",
   burst_damage |-> \E i \in DOMAIN enemy :
                      enemy[i].skill_type = "Damage" \/ enemy[i].name \in BURST_DAMAGE_COOKIES]

\* [c.name for c in self.all_cookies if P(c)][:k], as a set
NamesWhere(pool, P(_), k) ==
  {heap[c].name : c \in Range(Take(SelectSeq(pool, LAMBDA c : P(heap[c])), k))}

\* 'Debuff' in str(c.key_mechanic) or 'DoT' in str(c.key_mechanic), for the
\* key mechanics the cookies of this model have
MentionsDebuff(c) == c.key_mechanic \in {"Stacks Debuff on hit", "Poison DoT"}

\* generate_counter_strategies(enemy_team)['recommended_cookies'], as a set
\* (the source builds list(set(...)) and tests membership only), from the
\* analysis of the enemy team
recommended_for(analysis, pool) ==
  LET ambush(k) == NamesWhere(pool, LAMBDA c : c.role = "Ambush" \/ c.target_type = "Backline", k)
  IN (IF analysis.healers = 0
        THEN NamesWhere(pool, LAMBDA c : /\ c.skill_type = "Damage"
                                         /\ c.rarity \in {"Beast", "Ancient", "Legendary"}, 5)
        ELSE IF analysis.healers >= 2
          THEN NamesWhere(pool, LAMBDA c : c.anti_heal, Len(pool)) \cup ambush(3)
          ELSE {})
       \cup (IF analysis.front_position >= 3
               THEN NamesWhere(pool, LAMBDA c : c.anti_tank, Len(pool)) ELSE {})
       \cup (IF analysis.rear_position >= 3 /\ analysis.front_position <= 1
               THEN ambush(Len(pool)) ELSE {})
       \cup (IF analysis.has_shadow_milk
               THEN TAUNT_TANKS \cup {"Shadow Milk Cookie", "Black Pearl Cookie"} ELSE {})
       \cup (IF analysis.crowd_control >= 2
               THEN NamesWhere(pool, HasImmunity, Len(pool)) ELSE {})
       \cup (IF analysis.burst_damage /\ analysis.healers <= 1
               THEN NamesWhere(pool, LAMBDA c : c.provides_shield, 3)
                      \cup NamesWhere(pool, LAMBDA c : c.provides_healing, 2)
                      \cup Range(Take(HIGH_HP_TANKS, 2))
               ELSE {})
       \cup (IF ~analysis.immunity THEN NamesWhere(pool, HasCC, 3) ELSE {})
       \cup (IF ~analysis.cleanse THEN NamesWhere(pool, MentionsDebuff, 3) ELSE {})

recommended_cookies(enemy, pool) == recommended_for(analyze_enemy_team(enemy), pool)

\* counter_cookies of find_counter_teams: the recommended cookies of the
\* pool, filled up to 20 with its high-tier cookies
counter_cookies(recommended, pool) ==
  LET picks == SelectSeq(pool, LAMBDA c : heap[c].name \in recommended)
      high_tier == SelectSeq(pool, LAMBDA c : /\ heap[c].rarity \in {"Beast", "Ancient", "Legendary"}
                                              /\ ~CookieIn(c, picks))
  IN IF Len(picks) < COUNTER_POOL_SIZE
       THEN picks \o Take(high_tier, COUNTER_POOL_SIZE - Len(picks))
       ELSE picks

\* the ints of a list as floats
Floats(xs) == [i \in DOMAIN xs |-> FInt(xs[i])]

\* the points _calculate_counter_score adds for the recommended cookies of the team
recommended_points(cs, recommended) ==
  FMul(FDivInt(FInt(CountWhere(cs, LAMBDA c : c.name \in recommended)), 5), FInt(40))

\* the points it adds for anti-heal, ambush, anti-tank, crowd control and immunity
counter_element_points(cs, analysis) ==
  << IF analysis.healers >= 2 /\ \E i \in DOMAIN cs : cs[i].anti_heal THEN 10 ELSE 0,
     IF /\ analysis.rear_position >= 3
        /\ \E i \in DOMAIN cs : cs[i].role = "Ambush" \/ cs[i].target_type = "Backline"
       THEN 10 ELSE 0,
     IF analysis.tanks >= 2 /\ \E i \in DOMAIN cs : cs[i].anti_tank THEN 10 ELSE 0,
     IF ~analysis.immunity /\ \E i \in DOMAIN cs : HasCC(cs[i]) THEN 5 ELSE 0,
     IF analysis.crowd_control >= 2 /\ \E i \in DOMAIN cs : HasImmunity(cs[i]) THEN 5 ELSE 0 >>

\* the points it adds for a tank, a healer and a damage dealer in the team
balance_points(cs) ==
  << IF \E i \in DOMAIN cs : cs[i].role \in {"Defense", "Charge"} THEN 5 ELSE 0,
     IF \E i \in DOMAIN cs : cs[i].role \in {"Healing", "Support"} THEN 5 ELSE 0,
     IF \E i \in DOMAIN cs : cs[i].role \in {"Magic", "Ranged", "Bomber", "Ambush"}
       THEN 5 ELSE 0 >>

\* the points it adds for the synergy_score of the team
synergy_points(synergy_score) == FMul(FDivInt(synergy_score, 100), FInt(15))

\* Team.synergy_score: 0.0, or the total_score of the synergy_breakdown
synergy_score(team) ==
  IF team.synergy_breakdown = EmptyBreakdown THEN FZero ELSE team.synergy_breakdown.total_score

\* the score before "return min(score, max_score)": the points are added to
\* 0.0 one after the other ("score += 0" leaves a score as it is)
uncapped_counter_score(team, enemy, recommended) ==
  FAdd(FSum(<<recommended_points(Deref(team.cookies), recommended)>>
              \o Floats(counter_element_points(Deref(team.cookies), analyze_enemy_team(enemy)))
              \o Floats(balance_points(Deref(team.cookies)))),
       synergy_points(synergy_score(team)))

\* a counter score that is returned as it was summed up
calculate_counter_score_without_cap(team, enemy, recommended) ==
  uncapped_counter_score(team, enemy, recommended)

\* _calculate_counter_score(counter_team, enemy_team, strategy)
calculate_counter_score(team, enemy, recommended) ==
  FMin(uncapped_counter_score(team, enemy, recommended), FInt(100))

\* next((c for c in self.all_cookies if c.name == name), None), for a name of the pool
FirstNamed(pool, name) ==
  pool[CHOOSE i \in DOMAIN pool :
         /\ heap[pool[i]].name = name
         /\ \A j \in 1..(i - 1) : heap[pool[j]].name # name]

\* team_cookies of one iteration of the greedy branch of find_counter_teams
greedy_counter_cookies(recommended, pool, required_cookies) ==
  LET found == SelectSeq(required_cookies, LAMBDA name : \E c \in Range(pool) : heap[c].name = name)
      required == [i \in DOMAIN found |-> FirstNamed(pool, found[i])]
      available == SelectSeq(counter_cookies(recommended, pool), LAMBDA c : ~CookieIn(c, required))
      filled == IF Len(required) < 5
                  THEN required \o Take(available, 5 - Len(required)) ELSE required
      remaining == SelectSeq(pool, LAMBDA c : ~CookieIn(c, filled))
      by_rarity == SortedDesc(remaining,
                              [i \in DOMAIN remaining |->
                                 IF RarityKey(heap[remaining[i]].rarity) \in DOMAIN RARITY_WEIGHTS
                                   THEN RarityWeight(heap[remaining[i]].rarity) ELSE FZero])
  IN IF Len(filled) < 5 THEN filled \o Take(by_rarity, 5 - Len(filled)) ELSE filled

\* (team, counter_info) of find_counter_teams, with the scores of counter_info
ScoredTeamEntry(team, counter_score) ==
  [team |-> team, counter_score |-> counter_score,
   combined_score |-> FAdd(FMul(counter_score, F0_6), FMul(team.composition_score, F0_4))]

\* scored_teams.sort(key=lambda x: x[1]['combined_score'], reverse=True)
SortScoredTeams(scored_teams) ==
  SortedDesc(scored_teams, [i \in DOMAIN scored_teams |-> scored_teams[i].combined_score])

\* the end of find_counter_teams: the teams are scored and sorted, the first n returned
counter_result(ts, enemy, recommended, n) ==
  Take(SortScoredTeams([i \in DOMAIN ts |->
                          ScoredTeamEntry(ts[i],
                                          calculate_counter_score(ts[i], enemy, recommended))]),
       n)

\* the arguments and local variables of a find_counter_teams call:
\* original_cookies is optimizer.all_cookies when the call was made,
\* recommended is counter_strategy['recommended_cookies']
CounterFrame(call, returned) ==
  [enemy_team |-> call.enemy_team, n |-> call.n, method |-> call.method,
   required_cookies |-> call.required_cookies, original_cookies |-> all_cookies,
   recommended |-> recommended_cookies(Deref(call.enemy_team), all_cookies),
   returned |-> returned]

\* Team(team_cookies) of the greedy branch, constructed, and the rest of the call
greedy_counter_teams(frame, outcome) ==
  IF outcome.raised
    THEN /\ result' = result
         /\ pc' = "raised"
         /\ error' = "ValueError"
         /\ counter_call' = <<frame>>
    ELSE /\ result' = counter_result([i \in 1..(frame.n * 3) |-> outcome.self],
                                     Deref(frame.enemy_team), frame.recommended, frame.n)
         /\ pc' = "done"
         /\ error' = error
         /\ counter_call' = <<[frame EXCEPT !.returned = TRUE]>>

\* find_counter_teams after counter_strategy was computed: all of the greedy
\* branch with team_cookies the list every iteration of its loop builds, or
\* the other branch up to the call of optimizer.find_best_teams
find_counter_teams_with(frame, team_cookies, counter_pool) ==
  IF frame.method = "greedy"
    THEN /\ all_cookies' = all_cookies
         /\ IF Len(team_cookies) # 5
              THEN /\ result' = <<>>
                   /\ pc' = "done"
                   /\ error' = error
                   /\ counter_call' = <<[frame EXCEPT !.returned = TRUE]>>
              ELSE greedy_counter_teams(frame, TeamInit(team_cookies, <<>>, TRUE, TRUE))
    ELSE /\ all_cookies' = IF counter_pool # <<>> THEN counter_pool ELSE all_cookies
         /\ counter_call' = <<frame>>
         /\ pc' = "find_counter_teams"
         /\ UNCHANGED <<result, error>>

\* generator.find_counter_teams(enemy_team, n, method, required_cookies)
find_counter_teams_of(frame) ==
  /\ pc = "idle"
  /\ request' = [method |-> frame.method, n |-> frame.n,
                 required_cookies |-> frame.required_cookies, enemy_team |-> frame.enemy_team]
  /\ find_counter_teams_with(frame,
                             greedy_counter_cookies(frame.recommended, all_cookies,
                                                    frame.required_cookies),
                             counter_cookies(frame.recommended, all_cookies))
  /\ UNCHANGED <<next_generation, attempts, response, heap, constructed, teams, generated,
                 population, generation>>

find_counter_teams(call) == find_counter_teams_of(CounterFrame(call, FALSE))

\* "teams = self.optimizer.find_best_teams(n=n * 3, method=method,
\* required_cookies=required_cookies)", entered
CounterFindBestTeams ==
  /\ pc = "find_counter_teams"
  /\ find_best_teams_entered([method |-> request.method, n |-> request.n * 3,
                              num_candidates |-> COUNTER_NUM_CANDIDATES,
                              required_cookies |-> request.required_cookies,
                              population_size |-> 0])

\* find_best_teams has returned: the pool is put back, the teams are scored
\* and sorted, the first n are returned
CounterReturn ==
  /\ pc = "done"
  /\ counter_call # <<>>
  /\ ~counter_call[1].returned
  /\ all_cookies' = counter_call[1].original_cookies
  /\ result' = counter_result(result, Deref(counter_call[1].enemy_team),
                              counter_call[1].recommended, counter_call[1].n)
  /\ counter_call' = <<[counter_call[1] EXCEPT !.returned = TRUE]>>
  /\ UNCHANGED <<next_generation, attempts, response, heap, constructed, request, pc, teams,
                 generated, population,
                 generation, error>>

\* generator._calculate_counter_score(team, enemy_team,
\* generator.generate_counter_strategies(enemy_team)) for a Team just constructed
ScoreConstructed(outcome, enemy_team) ==
  /\ ~outcome.raised
  /\ request' = [method |-> "_calculate_counter_score", counter_team |-> outcome.self,
                 enemy_team |-> enemy_team]
  /\ result' = calculate_counter_score(outcome.self, Deref(enemy_team),
                                       recommended_cookies(Deref(enemy_team), all_cookies))

CalculateCounterScore(cookies, enemy_team, include_synergy) ==
  /\ pc = "idle"
  /\ ScoreConstructed(TeamInit(cookies, <<>>, include_synergy, FALSE), enemy_team)
  /\ pc' = "done"
  /\ UNCHANGED <<next_generation, attempts, counter_call, response, heap, all_cookies, constructed, teams, generated,
                 population, generation, error>>

(***************************************************************************)
(* The specification SpecCounter: an optimizer with a pool of seven        *)
(* cookies, a generator made for it, an enemy Team of five other cookies,  *)
(* and one call of the generator.                                          *)
(***************************************************************************)
\* Cookie.__init__ with anti_heal, target_type and key_mechanic
CookieWithCounters(cookie, anti_heal, target_type, key_mechanic) ==
  [cookie EXCEPT !.anti_heal = anti_heal, !.target_type = target_type,
                 !.key_mechanic = key_mechanic]

\* the pool: the last cookie is recommended against no enemy
CounterPool ==
  << CookieWithCounters(Cookie("Vampire Cookie", "Epic", "Ambush", "Rear", None),
                        TRUE, None, None),
     CookieWithAbilities(Cookie("Dark Cacao Cookie", "Epic", "Defense", "Front", None),
                         "None", "None", None, FALSE, FALSE, FALSE, TRUE),
     CookieWithAbilities(Cookie("Frost Queen Cookie", "Epic", "Healing", "Rear", None),
                         "Freeze", "None", None, FALSE, FALSE, FALSE, FALSE),
     CookieWithAbilities(Cookie("Cream Ferret Cookie", "Epic", "Magic", "Middle", None),
                         "None", "Stun", None, FALSE, TRUE, FALSE, FALSE),
     CookieWithAbilities(Cookie("Sea Fairy Cookie", "Legendary", "Support", "Middle", None),
                         "None", "None", "Damage", FALSE, FALSE, FALSE, FALSE),
     CookieWithCounters(Cookie("Licorice Cookie", "Epic", "Ranged", "Rear", None),
                        FALSE, "Backline", "Poison DoT"),
     Cookie("GingerBrave", "Common", "Bomber", "Middle", None) >>

\* the cookies of the enemy Team: with healing or without, with two tanks
\* or none, three cookies in the rear or in the front, crowd control or
\* none, immunity and cleanse or neither, Shadow Milk Cookie or another
EnemyCookies(heal, tanks, rear, cc, immune, shadow) ==
  << CookieWithAbilities(Cookie("E1", "Epic", IF tanks THEN "Defense" ELSE "Magic",
                                IF rear THEN "Rear" ELSE "Front", None),
                         IF cc THEN "Stun" ELSE "None", "None", None, heal, FALSE, FALSE, FALSE),
     CookieWithAbilities(Cookie("E2", "Epic", IF tanks THEN "Charge" ELSE "Ranged",
                                IF rear THEN "Rear" ELSE "Front", None),
                         IF cc THEN "Freeze" ELSE "None", "None", None, heal, FALSE, FALSE, FALSE),
     CookieWithAbilities(Cookie("E3", "Epic", "Magic", IF rear THEN "Rear" ELSE "Front", None),
                         "None", IF immune THEN "All_Debuffs" ELSE "None", None,
                         FALSE, FALSE, immune, FALSE),
     Cookie(IF shadow THEN "Shadow Milk Cookie" ELSE "E4", "Beast", "Ambush", "Middle", None),
     CookieWithAbilities(Cookie("E5", "Epic", "Bomber", IF rear THEN "Front" ELSE "Rear", None),
                         "None", "None", "Damage", FALSE, FALSE, FALSE, FALSE) >>

\* enemy_team.cookies
EnemyTeam == [i \in 1..5 |-> Len(CounterPool) + i]

InitCounter ==
  /\ \E heal, tanks, rear, cc, immune, shadow \in BOOLEAN :
       heap = CounterPool \o EnemyCookies(heal, tanks, rear, cc, immune, shadow)
  /\ all_cookies = [i \in DOMAIN CounterPool |-> i]
  /\ constructed = <<>>
  /\ Idle

\* the calls made: 'best' is a method name find_best_teams does not know.
\* Vampire Cookie is recommended against some enemies, GingerBrave against
\* none; the three cookies required of a random search are in the counter
\* pool of every enemy without immunity, and leave two slots to fill.
CounterCalls ==
  [enemy_team : {EnemyTeam}, n : 1..MaxN, method : {"greedy"},
   required_cookies : {<<>>, <<"Vampire Cookie">>, <<"GingerBrave">>}]
    \cup [enemy_team : {EnemyTeam}, n : 1..MaxN, method : {"random", "best"},
          required_cookies : {<<"Frost Queen Cookie", "Sea Fairy Cookie", "Licorice Cookie">>,
                              <<"GingerBrave">>}]

\* the teams scored directly: the pool without two of its cookies, or its first three
CounterTeamChoices ==
  {SelectSeq([i \in DOMAIN CounterPool |-> i], LAMBDA c : c \notin {p[1], p[2]}) :
     p \in {q \in (DOMAIN CounterPool) \X (DOMAIN CounterPool) : q[1] < q[2]}}
    \cup {<<1, 2, 3>>}

NextCounter ==
  \/ \E call \in CounterCalls : find_counter_teams(call)
  \/ CounterFindBestTeams
  \/ RandomIteration
  \/ RandomReturn
  \/ FindBestReturn
  \/ CounterReturn
  \/ \E cookies \in CounterTeamChoices, include_synergy \in BOOLEAN :
       CalculateCounterScore(cookies, EnemyTeam, include_synergy)

SpecCounter == InitCounter /\ [][NextCounter]_vars

\* _calculate_counter_score has returned
CounterScored == pc = "done" /\ request.method = "_calculate_counter_score"
\* find_counter_teams has returned
CounterReturned == counter_call # <<>> /\ counter_call[1].returned
\* find_counter_teams has returned or raised
CounterEnded == counter_call # <<>> /\ (counter_call[1].returned \/ pc = "raised")

\* C23: the counter score of a team against an enemy team, asked for
\* directly or found in the counter_info of a returned team, is between 0
\* and 100.
C23_CounterScoreRange ==
  /\ CounterScored => Within(result, 0, 100)
  /\ CounterReturned => \A i \in DOMAIN result : Within(result[i].counter_score, 0, 100)

\* the score of a team whose points add up to more than 100 has been computed
C23_Witness ==
  /\ CounterScored
  /\ FGt(uncapped_counter_score(request.counter_team, Deref(request.enemy_team),
                                recommended_cookies(Deref(request.enemy_team), all_cookies)),
         FInt(100))
  /\ result = FInt(100)

\* the sum of a list of ints
SumOf(xs) == LET upto[k \in 0..Len(xs)] == IF k = 0 THEN 0 ELSE upto[k - 1] + xs[k]
             IN upto[Len(xs)]

\* C24: of the points of a counter score at most 40 are for recommended
\* cookies, at most 30 for the anti-heal, ambush, anti-tank, crowd control
\* and immunity checks together, at most 15 for role balance and at most 15
\* for the synergy score.
C24_ComponentBudgets ==
  CounterScored =>
    /\ ~FGt(recommended_points(Deref(request.counter_team.cookies),
                               recommended_cookies(Deref(request.enemy_team), all_cookies)),
            FInt(40))
    /\ SumOf(counter_element_points(Deref(request.counter_team.cookies),
                                    analyze_enemy_team(Deref(request.enemy_team)))) <= 30
    /\ SumOf(balance_points(Deref(request.counter_team.cookies))) <= 15
    /\ ~FGt(synergy_points(synergy_score(request.counter_team)), FInt(15))

\* C29: when find_counter_teams has returned or raised, optimizer.all_cookies
\* is the list it was when the call was made.
C29_PoolRestored == CounterEnded => all_cookies = counter_call[1].original_cookies

\* C30: no two of the Teams find_counter_teams returns have the same set of
\* cookie names.
C30_CounterTeamsDistinct ==
  CounterReturned =>
    \A i, j \in DOMAIN result : i # j => ~Team_eq(result[i].team, result[j].team)


(***************************************************************************)
(* The specification SpecPair: two Cookie objects with ability attributes  *)
(* are constructed and SynergyCalculator.calculate_cookie_synergy is       *)
(* called on them, in either order.                                        *)
(***************************************************************************)
\* values of the skill_type column
SkillTypes == {"Damage", "Buff"}
\* values of the crowd_control and grants_immunity columns: absent, the
\* string 'None', or the name of an effect
Effects == {None, "None", "Stun"}

InitPair ==
  /\ \E skill_type1, skill_type2 \in SkillTypes, crowd_control1, crowd_control2 \in Effects,
        grants_immunity1, grants_immunity2 \in {None, "Stun"}, dispel1, dispel2 \in BOOLEAN :
       heap = << CookieWithAbilities(Cookie("A", "Epic", "Magic", "Rear", "Fire"),
                   crowd_control1, grants_immunity1, skill_type1, TRUE, FALSE, dispel1, TRUE),
                 CookieWithAbilities(Cookie("B", "Epic", "Support", "Middle", "Water"),
                   crowd_control2, grants_immunity2, skill_type2, FALSE, TRUE, dispel2, TRUE) >>
  /\ all_cookies = <<1, 2>>
  /\ constructed = <<>>
  /\ Idle

NextPair == \E cookie1, cookie2 \in DOMAIN heap : CookieSynergy(cookie1, cookie2)

SpecPair == InitPair /\ [][NextPair]_vars

\* C28: calculate_cookie_synergy(a, b) equals calculate_cookie_synergy(b, a);
\* the crowd control + burst bonus of 1.5 is part of the result whenever one
\* of the two cookies has a crowd control and the skill_type of the other is
\* 'Damage', whichever is passed first.
C28_PairSynergySymmetric ==
  SynergyScored =>
    result = calculate_cookie_synergy(heap[request.cookie2], heap[request.cookie1])


(***************************************************************************)
(* The specification SpecGenetic: _generate_genetic_teams with its         *)
(* breeding loop followed pass by pass.  The program is single-threaded    *)
(* and nothing in the search waits for anything: a step that can be taken  *)
(* is taken.                                                               *)
(***************************************************************************)
GeneticPoolSize == 7
LargePopulationSize == 11
\* how many passes of the breeding loop of one generation are followed
MaxAttempts == 10

\* elites = population[:elite_count], which next_generation starts with
elites == Take(next_generation, elite_count(request.population_size))

\* random.sample(elites, 2) raises ValueError for fewer than two elites, and
\* so does the random.sample of _crossover_teams when the pool has too few
\* other cookies
breeding_raises(parent_teams, required_cookies) ==
  \/ Samples(parent_teams, 2) = {}
  \/ \E parents \in Samples(parent_teams, 2) :
       crossover_teams(parents[1], parents[2], required_cookies) = {}

\* "for generation in range(generations)" up to the breeding loop: the
\* population is sorted in place and the elites are copied
GenerationStart ==
  /\ pc = "genetic"
  /\ generation < request.num_candidates
  /\ population' = SortTeams(population)
  /\ next_generation' = Take(SortTeams(population), elite_count(request.population_size))
  /\ attempts' = 0
  /\ pc' = "breeding"
  /\ UNCHANGED <<counter_call, response, heap, all_cookies, constructed, request, teams, generated,
                 generation, result, error>>

\* one pass of "while len(next_generation) < population_size": a child is
\* bred and appended, or "except ValueError: continue" discards it
Breed ==
  /\ pc = "breeding"
  /\ Len(next_generation) < request.population_size
  /\ attempts < MaxAttempts
  /\ IF breeding_raises(elites, request.required_cookies)
       THEN /\ pc' = "raised"
            /\ error' = "ValueError"
            /\ UNCHANGED <<next_generation, attempts>>
       ELSE /\ \E child_cookies \in ChildCookies(elites, request.required_cookies) :
                 next_generation' = TryAppend(next_generation, child_cookies)
            /\ attempts' = attempts + 1
            /\ UNCHANGED <<pc, error>>
  /\ UNCHANGED <<counter_call, response, heap, all_cookies, constructed, request, teams, generated,
                 population, generation, result>>

\* the breeding loop is left: "population = next_generation"
GenerationEnd ==
  /\ pc = "breeding"
  /\ Len(next_generation) >= request.population_size
  /\ population' = next_generation
  /\ generation' = generation + 1
  /\ pc' = "genetic"
  /\ UNCHANGED <<next_generation, attempts, counter_call, response, heap, all_cookies, constructed,
                 request, teams, generated, result, error>>

\* Genetic searches with four required cookies, and one with a population of
\* LargePopulationSize whose five members are all required.
GeneticCalls ==
  [method : {"genetic"}, n : 1..MaxN, num_candidates : 1..MaxGenerations,
   required_cookies : {[i \in 1..4 |-> CookieObjects[i].name]},
   population_size : 1..MaxPopulationSize]
    \cup [method : {"genetic"}, n : {1}, num_candidates : 1..MaxGenerations,
          required_cookies : {[i \in 1..5 |-> CookieObjects[i].name]},
          population_size : {LargePopulationSize}]

\* find_best_teams(call) has been called with method 'genetic' and has
\* entered generate_random_teams, whose checks the pool has passed
InitGenetic ==
  /\ heap = HeapOf(GeneticPoolSize)
  /\ all_cookies = PoolOf(GeneticPoolSize)
  /\ constructed = <<>>
  /\ \E call \in GeneticCalls :
       /\ ~generate_random_teams_raises(call.required_cookies)
       /\ request = call
  /\ pc = "generate_random_teams"
  /\ teams = <<>>
  /\ generated = 0
  /\ population = <<>>
  /\ generation = 0
  /\ result = <<>>
  /\ error = None
  /\ response = None
  /\ counter_call = <<>>
  /\ next_generation = <<>>
  /\ attempts = 0

NextGenetic ==
  \/ RandomIteration
  \/ GeneticStart
  \/ GenerationStart
  \/ Breed
  \/ GenerationEnd
  \/ GeneticReturn
  \/ FindBestReturn

\* where the search is: every step of NextGenetic changes it
position == <<pc, generated, attempts>>

\* the search has a step to take: NextGenetic is enabled
Running ==
  \/ pc \in {"generate_random_teams", "genetic", "find_best_teams"}
  \/ /\ pc = "breeding"
     /\ Len(next_generation) >= request.population_size \/ attempts < MaxAttempts

\* NextGenetic as far as the position of the search goes.  (Fairness is
\* stated for this action because the enabledness of an action that
\* constructs a Team is too costly to evaluate: a step of the
\* specification changes the position exactly if it is a step of
\* NextGenetic, and NextGenetic is enabled exactly if Running holds.)
Advance ==
  /\ Running
  /\ pc' \in {"generate_random_teams", "genetic", "breeding", "find_best_teams", "done",
              "raised"}
  /\ generated' \in 0..LargePopulationSize
  /\ attempts' \in 0..MaxAttempts

SpecGenetic == InitGenetic /\ [][NextGenetic]_vars /\ WF_position(Advance)

\* the least integer that is not below a / b, for a >= 0 and b > 0
CeilDiv(a, b) == (a + b - 1) \div b

\* C26: the elites a generation carries over are the first
\* max(2, ceil(population_size / 5)) Teams of the sorted population (all of
\* them when the population has fewer).
C26_EliteCount ==
  (pc = "breeding" /\ attempts = 0) =>
    Len(next_generation) =
      Min(Len(population), Max(2, CeilDiv(request.population_size, 5)))

\* a generation of the genetic search is being bred
Breeding == pc = "breeding"

\* C25: a genetic search whose initial population was generated terminates:
\* every pass of the breeding loop appends its child, a Team of 5 cookies of
\* different names that holds every required cookie, so that the loop of
\* each generation ends and the search returns its population.
C25_GeneticTerminates ==
  /\ [](Breeding =>
          /\ Len(next_generation) = Len(elites) + attempts
          /\ \A k \in DOMAIN next_generation :
               /\ Cardinality(NamesOf(next_generation[k].cookies)) = 5
               /\ Range(request.required_cookies) \subseteq NamesOf(next_generation[k].cookies))
  /\ (pc = "genetic" ~> pc = "find_best_teams")

\* a search has returned a population whose last Team was bred in the last
\* generation and has other cookies than every elite
C25_Witness ==
  /\ pc = "find_best_teams"
  /\ request.method = "genetic"
  /\ attempts >= 1
  /\ \A i \in DOMAIN elites :
       NamesOf(population[Len(population)].cookies) # NamesOf(elites[i].cookies)


(***************************************************************************)
(* The specification SpecGreedy: _generate_greedy_teams is called for one  *)
(* or two teams on a pool whose cookies all have different power scores.   *)
(***************************************************************************)
GreedyPoolSize == 23
MaxGreedyTeams == 2

\* the i-th cookie of the pool: level 70, topping quality 5.0 and a skill
\* level that decreases with i
GreedyCookie(i) ==
  CookieWithStats(IF i <= Len(CookieObjects) - 1 THEN CookieObjects[i] ELSE OtherCookie(i),
                  <<FInt(70)>>, <<FInt(60 - i)>>, <<F5>>)

\* Calls with four required cookies, which leave one slot to fill, and calls
\* for one team with three required cookies.
GreedyCalls ==
  [method : {"_generate_greedy_teams"}, n : 1..MaxGreedyTeams,
   required_cookies : {[i \in 1..4 |-> CookieObjects[i].name]}]
    \cup [method : {"_generate_greedy_teams"}, n : {1},
          required_cookies : {[i \in 1..3 |-> CookieObjects[i].name]}]

InitGreedy ==
  /\ heap = [i \in 1..GreedyPoolSize |-> GreedyCookie(i)]
  /\ all_cookies = [i \in 1..GreedyPoolSize |-> i]
  /\ constructed = <<>>
  /\ Idle

\* optimizer._generate_greedy_teams(n, required_cookies), up to its loop
generate_greedy_teams(call) ==
  /\ pc = "idle"
  /\ request' = call
  /\ pc' = "greedy"
  /\ UNCHANGED <<next_generation, attempts, counter_call, response, heap, all_cookies,
                 constructed, teams, generated, population, generation, result, error>>

\* _generate_greedy_teams returns teams to the caller
GreedyTeamsReturn ==
  /\ pc = "greedy"
  /\ generated = GreedyCount
  /\ request.method = "_generate_greedy_teams"
  /\ result' = teams
  /\ pc' = "done"
  /\ UNCHANGED <<next_generation, attempts, counter_call, response, heap, all_cookies,
                 constructed, request, teams, generated, population, generation, error>>

NextGreedy ==
  \/ \E call \in GreedyCalls : generate_greedy_teams(call)
  \/ GreedyIteration
  \/ GreedyTeamsReturn

SpecGreedy == InitGreedy /\ [][NextGreedy]_vars

\* the cookies of the pool that are not required
NonRequired == {c \in Range(all_cookies) : ~NameIn(c, request.required_cookies)}
\* fewer than k non-required cookies have a higher power score than c
AmongTop(c, k) ==
  Cardinality({d \in NonRequired :
                 FGt(get_power_score(heap[d]), get_power_score(heap[c]))}) < k

\* C27: in every team of the greedy strategy one non-required member is
\* among the 10 non-required cookies of the highest power, and every other
\* non-required member is among the top half of the non-required cookies by
\* power.
C27_GreedyFromTheTop ==
  (pc = "done" /\ request.method = "_generate_greedy_teams") =>
    \A k \in DOMAIN result :
      \E first \in Range(result[k].cookies) \cap NonRequired :
        /\ AmongTop(first, 10)
        /\ \A c \in (Range(result[k].cookies) \cap NonRequired) \ {first} :
             AmongTop(c, CeilDiv(Cardinality(NonRequired), 2))

====
